---- MODULE Spec2Model ----
(***************************************************************************)
(* Happiness Reserve: the deposit store, the surfacing engine and the      *)
(* shared-deposit surfacing of the Express server (src/shared/schema.ts).  *)
(* Each route handler is one action; the tables are the state.  Every      *)
(* handler records the request it served and the response it sent in       *)
(* lastCall, so that properties of responses are properties of states.     *)
(*                                                                         *)
(* Specifications, each a set of routes over the same tables:              *)
(*   Spec         the status lifecycle: create, set status, soft delete,   *)
(*                mark surfaced, surface, list                             *)
(*   SpecUpdate   editing content, emotion and tags                        *)
(*   SpecClock    status writes and surfacing marks while time passes      *)
(*   SpecSurface  surface with every exclude parameter, well formed or not *)
(*   SpecShared   shared deposits: share, surface for a receiver, use      *)
(*   SpecMissing  every route that takes an id, called with unknown ids    *)
(*   SpecLogs     the rainy-day log routes: create log, patch feedback     *)
(*   SpecCircle   sharing and surfacing while connections are removed      *)
(*   SpecUse      use statement by statement, with a failing INSERT        *)
(*   SpecLedger   the usage ledger as it grows past one row                *)
(*   SpecSummary  the sender summary over usage rows of several ages       *)
(*   SpecScenario share, surface, use and the default summary              *)
(*   SpecWeeks    the sender summary with every weeks query                *)
(*   SpecSent     what a sender can read: sent list and summary            *)
(*   SpecAccept   accepting invites statement by statement, with removes   *)
(*   SpecExpiry   invites as they age: create, get, accept                 *)
(*   SpecReconnect sharing after a connection was removed                  *)
(*   SpecRace     accepts of invites that run side by side                 *)
(*   SpecCooldown a deposit in cooldown while time passes                  *)
(*   SpecSession  the rainy-day session of the client, one step per        *)
(*                request (src/client/screens/MemoryDetailScreen.tsx)      *)
(*   SpecBusy     a session while deposits are created and reactivated     *)
(*   SpecQuiet    a session over a store that only shrinks                 *)
(*   SpecLeave    a session the user closes at any moment                  *)
(*   SpecTaps     a session with Skip pressed twice                        *)
(*   SpecFailing  a session whose log request can fail                     *)
(*   SpecHistory  the status modal of the History screen                   *)
(*                (src/client/screens/HistoryScreen.tsx)                   *)
(*   SpecDelete   deleting on the deposit detail screen                    *)
(*                (src/client/lib/storage.ts)                              *)
(***************************************************************************)
EXTENDS Integers, Sequences, FiniteSets, TLC

(* ------------------------------ bounds -------------------------------- *)
MaxDeposits == 2
MaxTime == 1
MaxExcludeLen == 3
MaxShared == 1
MaxUses == 1
MaxLogs == 1
MaxSessions == 1
MaxInvites == 1
MaxAccepts == 1

(* --------------------------- program values --------------------------- *)
\* lastSurfacedAt is a nullable timestamp column; NullTime stands for NULL.
NullTime == -1
\* emotion is a nullable text column.
NullText == "null"
\* the character the exclude query parameter is split on; the other
\* characters of the parameter are the one-character ids 1, 2, ...
Comma == 0
\* the cooldown written by PATCH /api/deposits/:id/surface and by use
SurfaceCooldown == 30
SoftDeleted == -1
\* depositId and rating of a log are nullable columns; NullId and NullRating
\* stand for NULL (no id and no rating a request carries is 0).
NullId == 0
NullRating == 0

VARIABLES
    deposits,            \* table deposits: id -> row
    sharedDeposits,      \* table shared_deposits: id -> row
    sharedDepositUsage,  \* table shared_deposit_usage: sequence of rows
    connections,         \* table connections: set of rows
    useInFlight,         \* use requests between their UPDATE and their INSERT
    now,                 \* the server clock (new Date(), defaultNow())
    surfacedSince,       \* history: ids whose last status write was markSurfaced
    lastCall,            \* the last request served and its response
    rainyDayLogs,        \* table rainy_day_logs: id -> row
    session,             \* the client's Rainy-Day session (route params, state)
    circleInvites,       \* table circle_invites: sequence of rows
    acceptInFlight,      \* accept requests that passed their checks
    connectionSeq,       \* the number of connection rows ever inserted
    memories,            \* AsyncStorage, key @happiness_reserve_memories
    deleted              \* history: ids the user deleted on the detail screen

vars == <<deposits, sharedDeposits, sharedDepositUsage, connections,
          useInFlight, now, surfacedSince, lastCall, rainyDayLogs, session,
          circleInvites, acceptInFlight, connectionSeq, memories,
          deleted>>

storeVars == <<deposits, surfacedSince>>
inviteVars == <<circleInvites, acceptInFlight, connectionSeq>>
circleVars == <<sharedDeposits, sharedDepositUsage, connections, useInFlight,
                inviteVars>>
logVars == <<rainyDayLogs, session>>
localVars == <<memories, deleted>>

(* ------------------------------ helpers ------------------------------- *)
Min(S) == CHOOSE x \in S : \A y \in S : x <= y

\* the rows of a result set in one fixed enumeration (by id)
RECURSIVE SetToSeq(_)
SetToSeq(S) == IF S = {} THEN <<>>
               ELSE LET m == Min(S) IN <<m>> \o SetToSeq(S \ {m})

Range(s) == {s[i] : i \in DOMAIN s}

\* every sequence over S of length at most n
SeqsUpTo(S, n) == UNION {[1..k -> S] : k \in 0..n}

\* all orderings of the finite set S
Perms(S) == {p \in [1..Cardinality(S) -> S] : Range(p) = S}

(* ------------------------- requests and responses --------------------- *)
NoRows == <<>>

\* A request: the route (op), req.params (id, userId), req.query
\* (excludeParam, includeInactive) and req.body; code and rows are filled in
\* by the response.
Request(op, id, userId, body, excludeParam, includeInactive) ==
    [op |-> op, id |-> id, userId |-> userId, body |-> body,
     excludeParam |-> excludeParam, includeInactive |-> includeInactive,
     code |-> 0, rows |-> NoRows]

\* res.status(code).json(rows)
Respond(req, code, rows) == [req EXCEPT !.code = code, !.rows = rows]

(* ------------------------------ deposits ------------------------------ *)
\* gen_random_uuid(): an id no row has; ids are the one-character strings
\* 1, 2, ... so that the exclude parameter can be modelled character-wise.
DepositIds == 1..MaxDeposits

NewDepositId == Cardinality(DOMAIN deposits) + 1

\* A JSON request body, or the object handed to .set()/.values(): has is the
\* set of keys that are present (x !== undefined), the other fields their
\* values; statusType is typeof status.
Body(has, content, emotion, tags, status, statusType, lastSurfacedAt) ==
    [has |-> has, content |-> content, emotion |-> emotion, tags |-> tags,
     status |-> status, statusType |-> statusType,
     lastSurfacedAt |-> lastSurfacedAt]

EmptyBody == Body({}, "", NullText, <<>>, 0, "undefined", NullTime)

IdRequest(op, id, body) == Request(op, id, "", body, <<>>, "")

InitCall == IdRequest("none", 0, EmptyBody)

\* insertDepositSchema.safeParse: content is the one required key, and a
\* status, when present, is a number.
ParseOk(body) ==
    /\ "content" \in body.has
    /\ "status" \in body.has => body.statusType = "number"

\* { ...result.data, status: 0 }
CreateValuesKeepsStatus(data) == data

CreateValues(data) ==
    [data EXCEPT !.has = @ \cup {"status"}, !.status = 0, !.statusType = "number"]

\* INSERT INTO deposits: absent columns take their defaults
\* (emotion NULL, tags '{}', last_surfaced_at NULL, status 0, created_at now())
InsertRow(id, values) ==
    [id |-> id,
     content |-> values.content,
     emotion |-> IF "emotion" \in values.has THEN values.emotion ELSE NullText,
     tags |-> IF "tags" \in values.has THEN values.tags ELSE <<>>,
     lastSurfacedAt |-> NullTime,
     status |-> IF "status" \in values.has THEN values.status ELSE 0,
     createdAt |-> now]

\* UPDATE ... SET data: only the keys present in data are written
ApplySet(row, data) ==
    [row EXCEPT
       !.content = IF "content" \in data.has THEN data.content ELSE @,
       !.emotion = IF "emotion" \in data.has THEN data.emotion ELSE @,
       !.tags = IF "tags" \in data.has THEN data.tags ELSE @,
       !.status = IF "status" \in data.has THEN data.status ELSE @,
       !.lastSurfacedAt =
           IF "lastSurfacedAt" \in data.has THEN data.lastSurfacedAt ELSE @]

\* db.update(t).set(data).where(eq(t.id, id)).returning(): one statement
UpdateWhereId(table, id, data) ==
    IF id \in DOMAIN table THEN [table EXCEPT ![id] = ApplySet(@, data)]
    ELSE table

Returning(table, id, data) ==
    IF id \in DOMAIN table THEN <<ApplySet(table[id], data)>> ELSE NoRows

\* updateData of PATCH /api/deposits/:id: content, emotion and tags only
UpdateDataWholeBody(body) == body

UpdateData(body) ==
    [body EXCEPT !.has = @ \cap {"content", "emotion", "tags"}]

\* .set({ status })
StatusData(status) ==
    Body({"status"}, "", NullText, <<>>, status, "number", NullTime)

\* .set({ status: -1 })
SoftDeleteDataCooldown == StatusData(1)

SoftDeleteData == StatusData(SoftDeleted)

\* .set({ lastSurfacedAt: new Date(), status: 30 })
SurfacedDataTimeOnly ==
    Body({"lastSurfacedAt"}, "", NullText, <<>>, 0, "number", now)

SurfacedDataNoCooldown ==
    Body({"lastSurfacedAt", "status"}, "", NullText, <<>>, 0, "number", now)

SurfacedData ==
    Body({"lastSurfacedAt", "status"}, "", NullText, <<>>, SurfaceCooldown,
         "number", now)

(* ------------------------------ listing ------------------------------- *)
\* req.query.includeInactive === "true"
IncludeInactive(param) == param = "true"

\* where(ne(deposits.status, -1))
ListFilterActiveOnly(table, includeInactive) ==
    {id \in DOMAIN table : includeInactive \/ table[id].status = 0}

ListFilter(table, includeInactive) ==
    {id \in DOMAIN table : includeInactive \/ table[id].status # SoftDeleted}

\* orderBy(desc(createdAt)): any order of the selected rows in which
\* createdAt never increases (rows created at the same time tie)
ListResults(table, includeInactive) ==
    LET ids == ListFilter(table, includeInactive)
    IN {[i \in DOMAIN p |-> table[p[i]]] :
          p \in {q \in Perms(ids) :
                   \A i, j \in DOMAIN q :
                      i < j => table[q[i]].createdAt >= table[q[j]].createdAt}}

(* ----------------------------- surfacing ------------------------------ *)
\* String.prototype.split(","): the pieces between the separators
RECURSIVE Split(_)
Split(str) ==
    IF \A i \in DOMAIN str : str[i] # Comma THEN <<str>>
    ELSE LET k == Min({i \in DOMAIN str : str[i] = Comma})
         IN <<SubSeq(str, 1, k - 1)>> \o Split(SubSeq(str, k + 1, Len(str)))

\* .filter(Boolean): the empty pieces are dropped
FilterBoolean(pieces) == SelectSeq(pieces, LAMBDA s : s # <<>>)

\* excludeParam ? excludeParam.split(",").filter(Boolean) : []
ExcludeIds(excludeParam) ==
    IF excludeParam = <<>> THEN <<>> ELSE FilterBoolean(Split(excludeParam))

\* the id column as the string compared by NOT IN
IdString(id) == <<id>>

\* where(and(eq(status, 0), id NOT IN (...))) resp. where(eq(status, 0))
EligibleNotInactive(table, excludeIds) ==
    {id \in DOMAIN table :
       /\ table[id].status # SoftDeleted
       /\ IdString(id) \notin Range(excludeIds)}

Eligible(table, excludeIds) ==
    IF Len(excludeIds) > 0
    THEN {id \in DOMAIN table :
            /\ table[id].status = 0
            /\ IdString(id) \notin Range(excludeIds)}
    ELSE {id \in DOMAIN table : table[id].status = 0}

\* Math.floor(Math.random() * n): any index of 0 .. n-1
RandomIndexFirst(n) == {0}

RandomIndex(n) == 0..(n - 1)

\* the responses GET /api/deposits/surface can send: null, or one row
SurfaceResults(table, excludeParam) ==
    LET eligibleDeposits == SetToSeq(Eligible(table, ExcludeIds(excludeParam)))
    IN IF Len(eligibleDeposits) = 0 THEN {NoRows}
       ELSE {<<table[eligibleDeposits[i + 1]]>> :
               i \in RandomIndex(Len(eligibleDeposits))}

(* --------------------------- request inputs --------------------------- *)
\* bodies of POST /api/deposits: content only; content and a status;
\* no content (rejected by the schema).  A JSON body cannot carry a Date, so
\* no accepted body sets lastSurfacedAt.
CreateBodies ==
    {Body({"content"}, "x", NullText, <<>>, 0, "undefined", NullTime),
     Body({"content", "status"}, "x", NullText, <<>>, 7, "number", NullTime),
     Body({"status"}, "", NullText, <<>>, 7, "number", NullTime)}

\* bodies of PATCH /api/deposits/:id: none of the three keys; content only;
\* all three and a status key besides
UpdateBodies ==
    {EmptyBody,
     Body({"content"}, "y", NullText, <<>>, 0, "undefined", NullTime),
     Body({"content", "emotion", "tags", "status"}, "y", "joy", <<"joy">>,
          7, "number", NullTime)}

\* status values sent to PATCH /api/deposits/:id/status
StatusInputs == {-2, 0, 5}

StatusBodies ==
    {Body({"status"}, "", NullText, <<>>, n, "number", NullTime) :
       n \in StatusInputs}
    \cup {Body({"status"}, "", NullText, <<>>, 0, "string", NullTime)}

IncludeInactiveParams == {"true", "false", "undefined"}

\* the characters of an exclude parameter: the separator and two ids
ExcludeChars == {Comma, 1, 2}

\* every exclude parameter of at most MaxExcludeLen characters
ExcludeParams == SeqsUpTo(ExcludeChars, MaxExcludeLen)

\* newExcludeIds.join(","): the parameter the client builds from a list
JoinLast(ids) == IF ids = <<>> THEN <<>> ELSE IdString(ids[Len(ids)])

RECURSIVE Join(_)
Join(ids) ==
    IF ids = <<>> THEN <<>>
    ELSE IF Len(ids) = 1 THEN IdString(ids[1])
    ELSE IdString(ids[1]) \o <<Comma>> \o Join(Tail(ids))

\* the parameters the client sends: none, or the join of a list of ids
ClientExcludeParams == {Join(SetToSeq(S)) : S \in SUBSET DepositIds}

(* --------------------------- rainy-day logs --------------------------- *)
\* the ids of PATCH /api/rainy-day-logs/:id/feedback requests: one more
\* than the generic create-log requests can create
LogIds == 1..(MaxLogs + 1)

\* the body of a log request: has is the set of keys that are present
LogBody(has, emotion, depositId, rating, feedbackNote) ==
    [has |-> has, emotion |-> emotion, depositId |-> depositId,
     rating |-> rating, feedbackNote |-> feedbackNote]

\* insertRainyDayLogSchema.safeParse: emotion is the one required key;
\* depositId, rating (any integer) and feedbackNote are optional and nullable
LogParseOk(body) == "emotion" \in body.has

\* deposit_id references deposits.id: the INSERT fails for an unknown id
ForeignKeyOk(body) ==
    ("depositId" \in body.has /\ body.depositId # NullId)
    => body.depositId \in DOMAIN deposits

\* INSERT INTO rainy_day_logs: absent columns are NULL, created_at now()
InsertLogRow(id, values) ==
    [id |-> id,
     emotion |-> values.emotion,
     depositId |-> IF "depositId" \in values.has THEN values.depositId
                   ELSE NullId,
     rating |-> IF "rating" \in values.has THEN values.rating ELSE NullRating,
     feedbackNote |-> IF "feedbackNote" \in values.has
                      THEN values.feedbackNote ELSE NullText,
     createdAt |-> now]

\* POST /api/rainy-day-logs with the given body
CreateLogCall(body) ==
    IF ~LogParseOk(body)
    THEN /\ lastCall' = Respond(IdRequest("createLog", 0, body), 400, NoRows)
         /\ UNCHANGED rainyDayLogs
    ELSE IF ~ForeignKeyOk(body)
    THEN /\ lastCall' = Respond(IdRequest("createLog", 0, body), 500, NoRows)
         /\ UNCHANGED rainyDayLogs
    ELSE LET newLog == InsertLogRow(Len(rainyDayLogs) + 1, body)
         IN /\ rainyDayLogs' = Append(rainyDayLogs, newLog)
            /\ lastCall' = Respond(IdRequest("createLog", 0, body), 201,
                                   <<newLog>>)

\* rating !== undefined && (rating !== 2 && rating !== 1 && rating !== -1)
RatingRejected(body) ==
    "rating" \in body.has /\ body.rating \notin {2, 1, -1}

\* updateData of the feedback handler: rating and feedbackNote only
FeedbackData(body) == [body EXCEPT !.has = @ \cap {"rating", "feedbackNote"}]

\* UPDATE rainy_day_logs SET updateData
ApplyFeedback(row, data) ==
    [row EXCEPT
       !.rating = IF "rating" \in data.has THEN data.rating ELSE @,
       !.feedbackNote =
           IF "feedbackNote" \in data.has THEN data.feedbackNote ELSE @]

\* PATCH /api/rainy-day-logs/:id/feedback with the given id and body
FeedbackCall(id, body) ==
    LET updateData == FeedbackData(body)
    IN IF RatingRejected(body)
       THEN /\ lastCall' = Respond(IdRequest("feedback", id, body), 400, NoRows)
            /\ UNCHANGED rainyDayLogs
       ELSE IF updateData.has = {}
       THEN \* .set({}) throws "No values to set": the catch answers 500
            /\ lastCall' = Respond(IdRequest("feedback", id, body), 500, NoRows)
            /\ UNCHANGED rainyDayLogs
       ELSE IF id \notin DOMAIN rainyDayLogs
       THEN /\ lastCall' = Respond(IdRequest("feedback", id, body), 404, NoRows)
            /\ UNCHANGED rainyDayLogs
       ELSE /\ rainyDayLogs' =
                 [rainyDayLogs EXCEPT ![id] = ApplyFeedback(@, updateData)]
            /\ lastCall' = Respond(IdRequest("feedback", id, body), 200,
                                   <<ApplyFeedback(rainyDayLogs[id], updateData)>>)

\* bodies of POST /api/rainy-day-logs: no deposit; deposit 1; a rating
\* outside 2, 1, -1; no emotion (rejected by the schema)
LogBodies ==
    {LogBody({"emotion", "depositId"}, "sad", NullId, NullRating, NullText),
     LogBody({"emotion", "depositId"}, "sad", 1, NullRating, NullText),
     LogBody({"emotion", "rating"}, "sad", NullId, 5, NullText),
     LogBody({"depositId"}, "", NullId, NullRating, NullText)}

\* bodies of the feedback requests: each rating of the set, a rating outside
\* it, rating null, a note only, and neither key
FeedbackBodies ==
    {LogBody({"rating"}, "", NullId, r, NullText) :
       r \in {2, 1, -1, 5, NullRating}}
    \cup {LogBody({"feedbackNote"}, "", NullId, NullRating, "n"),
          LogBody({}, "", NullId, NullRating, NullText)}

(* ------------------------- the Rainy-Day session ---------------------- *)
\* The client state of one session: pc is the place of the controller,
\* target, shown, thumbsUp, excludeIds, memory and logId are the route
\* params of the Playback screen, rating is its rating state, deposit the
\* row surface answered, updatedThumbsUp the argument of advanceOrExit.
\* number counts the sessions started; shownIds, logIds and eligibleAtStart
\* are history: the deposits the Playback screen has shown, the logs the
\* session created, and the deposits that were eligible at its first call.
\* left is history too: the user has pressed the close button while an
\* advanceOrExit was scheduled or running. second is one more advanceOrExit
\* that runs beside the first: its place, the deposit surface answered it
\* and the route params of the screen it was started from.
SessionState(pc, number, target, shown, thumbsUp, excludeIds, memory, logId, rating, deposit, updatedThumbsUp, shownIds, logIds, eligibleAtStart, left, second) ==
    [pc |-> pc, number |-> number, target |-> target, shown |-> shown,
     thumbsUp |-> thumbsUp, excludeIds |-> excludeIds, memory |-> memory,
     logId |-> logId, rating |-> rating, deposit |-> deposit,
     updatedThumbsUp |-> updatedThumbsUp, shownIds |-> shownIds,
     logIds |-> logIds, eligibleAtStart |-> eligibleAtStart,
     left |-> left, second |-> second]

\* no second advanceOrExit
NoSecond == [pc |-> "none", deposit |-> NullId, shown |-> 0, thumbsUp |-> 0,
             excludeIds |-> <<>>]

\* the Rainy Day screen before handleFindJoy has run
NoSession ==
    SessionState("idle", 0, 0, 0, 0, <<>>, NullId, NullId, NullRating, NullId,
                 0, <<>>, <<>>, {}, FALSE, NoSecond)

\* settings.rainyDayMomentCount: the moment counts the settings offer that
\* a store of MaxDeposits deposits can tell apart
SessionTargets == 1..(MaxDeposits + 1)

\* the places where a session has ended
Ended == {"empty", "complete", "exhausted", "closed", "failed"}

\* the body of the log the client creates for a deposit, or for none
SessionLogBodyNoDeposit(depositId) ==
    LogBody({"emotion", "depositId"}, "sad", NullId, NullRating, NullText)

SessionLogBody(depositId) ==
    LogBody({"emotion", "depositId"}, "sad", depositId, NullRating, NullText)

\* sessionShown >= sessionTarget && updatedThumbsUp > 0
IsCompleteShownOnly(shown, target, updatedThumbsUp) == shown >= target

IsComplete(shown, target, updatedThumbsUp) ==
    shown >= target /\ updatedThumbsUp > 0

(* ------------------------------- Init --------------------------------- *)
Init ==
    /\ deposits = <<>>
    /\ sharedDeposits = <<>>
    /\ sharedDepositUsage = <<>>
    /\ connections = {}
    /\ useInFlight = {}
    /\ now = 0
    /\ surfacedSince = {}
    /\ lastCall = InitCall
    /\ rainyDayLogs = <<>>
    /\ session = NoSession
    /\ circleInvites = <<>>
    /\ acceptInFlight = {}
    /\ connectionSeq = Cardinality(connections)
    /\ memories = {}
    /\ deleted = {}

(* ------------------------- deposit handlers --------------------------- *)
\* POST /api/deposits
Create ==
    /\ \E body \in CreateBodies :
         IF ~ParseOk(body)
         THEN /\ lastCall' = Respond(IdRequest("create", 0, body), 400, NoRows)
              /\ UNCHANGED storeVars
         ELSE /\ Cardinality(DOMAIN deposits) < MaxDeposits
              /\ LET newDeposit == InsertRow(NewDepositId, CreateValues(body))
                 IN /\ deposits' = Append(deposits, newDeposit)
                    /\ lastCall' = Respond(IdRequest("create", 0, body), 201,
                                           <<newDeposit>>)
              /\ UNCHANGED surfacedSince
    /\ UNCHANGED <<localVars, now, circleVars, logVars>>

\* PATCH /api/deposits/:id
Update ==
    /\ \E id \in DepositIds, body \in UpdateBodies :
         LET updateData == UpdateData(body)
             updated == Returning(deposits, id, updateData)
         IN IF updateData.has = {}
            THEN \* .set({}) throws "No values to set": the catch answers 500
                 /\ lastCall' = Respond(IdRequest("update", id, body), 500, NoRows)
                 /\ UNCHANGED storeVars
            ELSE /\ deposits' = UpdateWhereId(deposits, id, updateData)
                 /\ surfacedSince' =
                      IF "status" \in updateData.has
                      THEN surfacedSince \ {id} ELSE surfacedSince
                 /\ lastCall' = Respond(IdRequest("update", id, body),
                                        IF updated = NoRows THEN 404 ELSE 200,
                                        updated)
    /\ UNCHANGED <<localVars, now, circleVars, logVars>>

\* PATCH /api/deposits/:id/status for the given id and body
SetStatusCall(id, body) ==
    IF body.statusType # "number"
    THEN /\ lastCall' = Respond(IdRequest("setStatus", id, body), 400, NoRows)
         /\ UNCHANGED storeVars
    ELSE LET updated == Returning(deposits, id, StatusData(body.status))
         IN /\ deposits' = UpdateWhereId(deposits, id, StatusData(body.status))
            /\ surfacedSince' = surfacedSince \ {id}
            /\ lastCall' = Respond(IdRequest("setStatus", id, body),
                                   IF updated = NoRows THEN 404 ELSE 200,
                                   updated)

\* PATCH /api/deposits/:id/status
SetStatus ==
    /\ \E id \in DepositIds, body \in StatusBodies : SetStatusCall(id, body)
    /\ UNCHANGED <<localVars, now, circleVars, logVars>>

\* DELETE /api/deposits/:id
SoftDelete ==
    /\ \E id \in DepositIds :
         LET updated == Returning(deposits, id, SoftDeleteData)
         IN /\ deposits' = UpdateWhereId(deposits, id, SoftDeleteData)
            /\ surfacedSince' = surfacedSince \ {id}
            /\ lastCall' = Respond(IdRequest("softDelete", id, EmptyBody),
                                   IF updated = NoRows THEN 404 ELSE 200,
                                   NoRows)
    /\ UNCHANGED <<localVars, now, circleVars, logVars>>

\* PATCH /api/deposits/:id/surface for the given id
MarkSurfacedCall(id) ==
    LET updated == Returning(deposits, id, SurfacedData)
    IN /\ deposits' = UpdateWhereId(deposits, id, SurfacedData)
       /\ surfacedSince' =
            IF updated = NoRows THEN surfacedSince
            ELSE surfacedSince \cup {id}
       /\ lastCall' = Respond(IdRequest("markSurfaced", id, EmptyBody),
                              IF updated = NoRows THEN 404 ELSE 200,
                              updated)

\* PATCH /api/deposits/:id/surface
MarkSurfaced ==
    /\ \E id \in DepositIds : MarkSurfacedCall(id)
    /\ UNCHANGED <<localVars, now, circleVars, logVars>>

\* GET /api/deposits/surface with the given exclude parameter
SurfaceCall(excludeParam) ==
    \E result \in SurfaceResults(deposits, excludeParam) :
       lastCall' = Respond(Request("surface", 0, "", EmptyBody,
                                   excludeParam, ""), 200, result)

\* GET /api/deposits/surface?exclude=..., for the parameters of params
SurfaceWithCooldown(params) ==
    /\ \E excludeParam \in params :
         \E result \in SurfaceResults(deposits, excludeParam) :
            /\ lastCall' = Respond(Request("surface", 0, "", EmptyBody,
                                           excludeParam, ""), 200, result)
            /\ deposits' = IF result = NoRows THEN deposits
                           ELSE UpdateWhereId(deposits, result[1].id,
                                              SurfacedData)
    /\ UNCHANGED <<localVars, surfacedSince, now, circleVars, logVars>>

SurfaceWith(params) ==
    /\ \E excludeParam \in params : SurfaceCall(excludeParam)
    /\ UNCHANGED <<localVars, storeVars, now, circleVars, logVars>>

Surface == SurfaceWith(ClientExcludeParams)

\* GET /api/deposits?includeInactive=...
List ==
    /\ \E param \in IncludeInactiveParams :
         \E allDeposits \in ListResults(deposits, IncludeInactive(param)) :
            lastCall' = Respond(Request("list", 0, "", EmptyBody, <<>>,
                                           param), 200, allDeposits)
    /\ UNCHANGED <<localVars, storeVars, now, circleVars, logVars>>

\* a clock that also counts every cooldown down by one
TickCountsDown ==
    /\ now < MaxTime
    /\ now' = now + 1
    /\ deposits' =
         [id \in DOMAIN deposits |->
            IF deposits[id].status > 0
            THEN [deposits[id] EXCEPT !.status = @ - 1]
            ELSE deposits[id]]
    /\ UNCHANGED <<localVars, surfacedSince, circleVars, lastCall, logVars>>

\* time passes on the server
Tick ==
    /\ now < MaxTime
    /\ now' = now + 1
    /\ UNCHANGED <<localVars, storeVars, circleVars, lastCall, logVars>>

(* ---------------------------- log handlers ---------------------------- *)
\* POST /api/rainy-day-logs
CreateLog ==
    /\ \E body \in LogBodies :
         /\ (LogParseOk(body) /\ ForeignKeyOk(body))
            => Len(rainyDayLogs) < MaxLogs
         /\ CreateLogCall(body)
    /\ UNCHANGED <<localVars, storeVars, now, circleVars, session>>

\* PATCH /api/rainy-day-logs/:id/feedback
Feedback ==
    /\ \E id \in LogIds, body \in FeedbackBodies : FeedbackCall(id, body)
    /\ UNCHANGED <<localVars, storeVars, now, circleVars, session>>

(* ------------------------ the session controller --------------------- *)
\* handleFindJoy, up to the answer of its surface request
FindJoy ==
    /\ session.pc \in {"idle"} \cup Ended
    /\ session.number < MaxSessions
    /\ SurfaceCall(<<>>)
    /\ \E sessionTarget \in SessionTargets :
         session' =
           [NoSession EXCEPT
              !.pc = IF lastCall'.rows = NoRows THEN "joyNoDeposit"
                     ELSE "joyMark",
              !.number = session.number + 1,
              !.target = sessionTarget,
              !.deposit = IF lastCall'.rows = NoRows THEN NullId
                          ELSE lastCall'.rows[1].id,
              !.eligibleAtStart = Eligible(deposits, <<>>)]
    /\ UNCHANGED <<localVars, storeVars, now, circleVars, rainyDayLogs>>

\* handleFindJoy without a deposit: the log with depositId null
FindJoyNoDepositNoLog ==
    /\ session.pc = "joyNoDeposit"
    /\ session' = [session EXCEPT !.pc = "empty"]
    /\ UNCHANGED <<localVars, storeVars, now, circleVars, lastCall,
                   rainyDayLogs>>

FindJoyNoDeposit ==
    /\ session.pc = "joyNoDeposit"
    /\ CreateLogCall(SessionLogBody(NullId))
    /\ session' =
         IF lastCall'.code = 201
         THEN [session EXCEPT !.pc = "empty",
                              !.logIds = Append(@, lastCall'.rows[1].id)]
         ELSE [session EXCEPT !.pc = "failed"]
    /\ UNCHANGED <<localVars, storeVars, now, circleVars>>

\* handleFindJoy with a deposit: the deposit is marked surfaced
FindJoyMark ==
    /\ session.pc = "joyMark"
    /\ MarkSurfacedCall(session.deposit)
    /\ session' = [session EXCEPT
                     !.pc = IF lastCall'.code = 200 THEN "joyLog" ELSE "failed"]
    /\ UNCHANGED <<localVars, now, circleVars, rainyDayLogs>>

\* handleFindJoy with a deposit: the log, and navigate("Playback", ...)
FindJoyLog ==
    /\ session.pc = "joyLog"
    /\ CreateLogCall(SessionLogBody(session.deposit))
    /\ session' =
         IF lastCall'.code = 201
         THEN [session EXCEPT
                 !.pc = "playback",
                 !.memory = session.deposit,
                 !.logId = lastCall'.rows[1].id,
                 !.shown = 1,
                 !.thumbsUp = 0,
                 !.excludeIds = <<session.deposit>>,
                 !.rating = NullRating,
                 !.shownIds = Append(@, session.deposit),
                 !.logIds = Append(@, lastCall'.rows[1].id)]
         ELSE [session EXCEPT !.pc = "failed"]
    /\ UNCHANGED <<localVars, storeVars, now, circleVars>>

\* const updatedThumbsUp = sessionThumbsUp + 1
UpdatedThumbsUpSame(sessionThumbsUp) == sessionThumbsUp

UpdatedThumbsUp(sessionThumbsUp) == sessionThumbsUp + 1

\* handleRating(value): the rating is sent; 2 and 1 schedule advanceOrExit
\* with one more thumbs up, -1 opens the feedback section
HandleRating ==
    /\ session.pc = "playback"
    /\ session.rating = NullRating
    /\ \E value \in {2, 1, -1} :
         /\ FeedbackCall(session.logId,
                         LogBody({"rating"}, "", NullId, value, NullText))
         /\ session' =
              IF value > 0
              THEN [session EXCEPT
                      !.rating = value, !.pc = "advance",
                      !.updatedThumbsUp = UpdatedThumbsUp(session.thumbsUp)]
              ELSE [session EXCEPT !.rating = value, !.pc = "feedback"]
    /\ UNCHANGED <<localVars, storeVars, now, circleVars>>

\* handleSubmitFeedback: the note is sent and advanceOrExit scheduled
HandleSubmitFeedback ==
    /\ session.pc = "feedback"
    /\ FeedbackCall(session.logId,
                    LogBody({"feedbackNote"}, "", NullId, NullRating, "n"))
    /\ session' = [session EXCEPT !.pc = "advance",
                                  !.updatedThumbsUp = session.thumbsUp]
    /\ UNCHANGED <<localVars, storeVars, now, circleVars>>

\* advanceOrExit(updatedThumbsUp), up to the answer of its surface request
AdvanceOrExitRetry(updatedThumbsUp) ==
    IF IsComplete(session.shown, session.target, updatedThumbsUp)
    THEN /\ session' = [session EXCEPT !.pc = "complete",
                                       !.updatedThumbsUp = updatedThumbsUp]
         /\ UNCHANGED lastCall
    ELSE LET newExcludeIds == Append(session.excludeIds, session.memory)
         IN \E excludeParam \in {Join(newExcludeIds)} :
              /\ SurfaceCall(excludeParam)
              /\ session' =
                 IF lastCall'.rows = NoRows
                 THEN [session EXCEPT !.pc = "advance",
                                      !.updatedThumbsUp = updatedThumbsUp]
                 ELSE [session EXCEPT !.pc = "advMark",
                                      !.updatedThumbsUp = updatedThumbsUp,
                                      !.deposit = lastCall'.rows[1].id]

AdvanceOrExit(updatedThumbsUp) ==
    IF IsComplete(session.shown, session.target, updatedThumbsUp)
    THEN /\ session' = [session EXCEPT !.pc = "complete",
                                       !.updatedThumbsUp = updatedThumbsUp]
         /\ UNCHANGED lastCall
    ELSE LET newExcludeIds == Append(session.excludeIds, session.memory)
         IN \E excludeParam \in {Join(newExcludeIds)} :
              /\ SurfaceCall(excludeParam)
              /\ session' =
                 IF lastCall'.rows = NoRows
                 THEN [session EXCEPT !.pc = "exhausted",
                                      !.updatedThumbsUp = updatedThumbsUp]
                 ELSE [session EXCEPT !.pc = "advMark",
                                      !.updatedThumbsUp = updatedThumbsUp,
                                      !.deposit = lastCall'.rows[1].id]

\* the advanceOrExit that handleRating or handleSubmitFeedback scheduled
AdvanceTimer ==
    /\ session.pc = "advance"
    /\ AdvanceOrExit(session.updatedThumbsUp)
    /\ UNCHANGED <<localVars, storeVars, now, circleVars, rainyDayLogs>>

\* handleSkipFeedback
HandleSkipFeedback ==
    /\ session.pc = "feedback"
    /\ AdvanceOrExit(session.thumbsUp)
    /\ UNCHANGED <<localVars, storeVars, now, circleVars, rainyDayLogs>>

\* advanceOrExit: the deposit is marked surfaced
AdvanceMark ==
    /\ session.pc = "advMark"
    /\ MarkSurfacedCall(session.deposit)
    /\ session' = [session EXCEPT
                     !.pc = IF lastCall'.code = 200 THEN "advLog" ELSE "failed"]
    /\ UNCHANGED <<localVars, now, circleVars, rainyDayLogs>>

\* advanceOrExit: the log, and the reset to the next Playback screen
AdvanceLog ==
    /\ session.pc = "advLog"
    /\ CreateLogCall(SessionLogBody(session.deposit))
    /\ session' =
         IF lastCall'.code = 201
         THEN [session EXCEPT
                 !.pc = "playback",
                 !.memory = session.deposit,
                 !.logId = lastCall'.rows[1].id,
                 !.shown = session.shown + 1,
                 !.thumbsUp = session.updatedThumbsUp,
                 !.excludeIds = Append(session.excludeIds, session.memory),
                 !.rating = NullRating,
                 !.shownIds = Append(@, session.deposit),
                 !.logIds = Append(@, lastCall'.rows[1].id)]
         ELSE [session EXCEPT !.pc = "failed"]
    /\ UNCHANGED <<localVars, storeVars, now, circleVars>>

\* the close button of the Playback screen: navigation.goBack()
Close ==
    /\ session.pc \in {"playback", "feedback"}
    /\ session' = [session EXCEPT !.pc = "closed"]
    /\ UNCHANGED <<localVars, storeVars, now, circleVars, lastCall,
                   rainyDayLogs>>

\* the close button pressed after handleRating or handleSubmitFeedback has
\* scheduled advanceOrExit, or while advanceOrExit awaits a response:
\* navigation.goBack() leaves the screen, the timer and the pending calls
\* are not cancelled
CloseWhileAdvancing ==
    /\ session.pc \in {"advance", "advMark", "advLog"}
    /\ ~session.left
    /\ session' = [session EXCEPT !.left = TRUE]
    /\ UNCHANGED <<localVars, storeVars, now, circleVars, lastCall,
                   rainyDayLogs>>

\* Skip pressed once more while an advanceOrExit is scheduled (after Save &
\* Continue) or awaits a response (after Skip): the button is not disabled,
\* so handleSkipFeedback starts advanceOrExit again with the route params
\* of the screen, up to the answer of its surface request
SkipAgain ==
    /\ session.pc \in {"advance", "advMark", "advLog"}
    /\ session.rating = -1
    /\ session.second.pc = "none"
    /\ IF IsComplete(session.shown, session.target, session.thumbsUp)
       THEN /\ session' = [session EXCEPT !.second.pc = "done"]
            /\ UNCHANGED lastCall
       ELSE LET newExcludeIds == Append(session.excludeIds, session.memory)
            IN \E excludeParam \in {Join(newExcludeIds)} :
                 /\ SurfaceCall(excludeParam)
                 /\ session' =
                      IF lastCall'.rows = NoRows
                      THEN [session EXCEPT !.second.pc = "done"]
                      ELSE [session EXCEPT
                              !.second = [pc |-> "mark",
                                          deposit |-> lastCall'.rows[1].id,
                                          shown |-> session.shown,
                                          thumbsUp |-> session.thumbsUp,
                                          excludeIds |-> newExcludeIds]]
    /\ UNCHANGED <<localVars, storeVars, now, circleVars, rainyDayLogs>>

\* the second advanceOrExit: the deposit is marked surfaced
SecondMark ==
    /\ session.second.pc = "mark"
    /\ MarkSurfacedCall(session.second.deposit)
    /\ session' = [session EXCEPT
                     !.second.pc = IF lastCall'.code = 200 THEN "log"
                                   ELSE "failed"]
    /\ UNCHANGED <<localVars, now, circleVars, rainyDayLogs>>

\* the second advanceOrExit: the log, answered after the first advanceOrExit
\* has ended, and the reset to a Playback screen with its own route params
SecondLog ==
    /\ session.second.pc = "log"
    /\ session.pc \notin {"advance", "advMark", "advLog"}
    /\ CreateLogCall(SessionLogBody(session.second.deposit))
    /\ session' =
         IF lastCall'.code = 201
         THEN [session EXCEPT
                 !.pc = "playback",
                 !.memory = session.second.deposit,
                 !.logId = lastCall'.rows[1].id,
                 !.shown = session.second.shown + 1,
                 !.thumbsUp = session.second.thumbsUp,
                 !.excludeIds = session.second.excludeIds,
                 !.rating = NullRating,
                 !.shownIds = Append(@, session.second.deposit),
                 !.logIds = Append(@, lastCall'.rows[1].id),
                 !.second.pc = "done"]
         ELSE [session EXCEPT !.second.pc = "failed"]
    /\ UNCHANGED <<localVars, storeVars, now, circleVars>>

\* the log request of a round when the INSERT throws: the handler's catch
\* answers 500, apiRequest throws and the client's catch ends the round
LogRequestFails ==
    /\ session.pc \in {"joyLog", "advLog"}
    /\ lastCall' = Respond(IdRequest("createLog", 0,
                                     SessionLogBody(session.deposit)),
                           500, NoRows)
    /\ session' = [session EXCEPT !.pc = "failed"]
    /\ UNCHANGED <<localVars, storeVars, now, circleVars, rainyDayLogs>>

\* sessions, one after the other, while deposits are created
NextSession ==
    \/ Create
    \/ FindJoy
    \/ FindJoyNoDeposit
    \/ FindJoyMark
    \/ FindJoyLog
    \/ HandleRating
    \/ HandleSubmitFeedback
    \/ HandleSkipFeedback
    \/ AdvanceTimer
    \/ AdvanceMark
    \/ AdvanceLog
    \/ Close

SpecSession == Init /\ [][NextSession]_vars

(* ------------- a session while other requests set statuses ------------ *)
\* the first session of the client
FindJoyFirst == FindJoy /\ session.number = 0

\* a setStatus request that makes a stored deposit active again
Reactivate ==
    SetStatus /\ lastCall'.code = 200 /\ lastCall'.body.status = 0

NextBusy ==
    \/ Create
    \/ Reactivate
    \/ FindJoyFirst
    \/ FindJoyNoDeposit
    \/ FindJoyMark
    \/ FindJoyLog
    \/ HandleRating
    \/ HandleSkipFeedback
    \/ AdvanceTimer
    \/ AdvanceMark
    \/ AdvanceLog

SpecBusy == Init /\ [][NextBusy]_vars

(* ---- a session while no deposit is created or made active again ------ *)
\* a deposit created before the session starts
CreateBefore == Create /\ session.pc = "idle"

\* the steps of the client between the start of a session and its end
SessionStep ==
    \/ FindJoyNoDeposit
    \/ FindJoyMark
    \/ FindJoyLog
    \/ HandleRating
    \/ HandleSubmitFeedback
    \/ HandleSkipFeedback
    \/ AdvanceTimer
    \/ AdvanceMark
    \/ AdvanceLog

NextQuiet ==
    \/ CreateBefore
    \/ SoftDelete
    \/ FindJoyFirst
    \/ SessionStep

SpecQuiet == Init /\ [][NextQuiet]_vars

\* the status lifecycle of the deposit store
Next ==
    \/ Create
    \/ SetStatus
    \/ SoftDelete
    \/ MarkSurfaced
    \/ Surface
    \/ List

Spec == Init /\ [][Next]_vars

(* ------------------------ editing a deposit --------------------------- *)
NextUpdate ==
    \/ Create
    \/ Update
    \/ SoftDelete
    \/ MarkSurfaced

SpecUpdate == Init /\ [][NextUpdate]_vars

(* ------------------ surfacing marks while time passes ----------------- *)
NextClock ==
    \/ Create
    \/ SetStatus
    \/ MarkSurfaced
    \/ Tick

SpecClock == Init /\ [][NextClock]_vars

(* ------------------- the surfacing engine on its own ------------------ *)
\* GET /api/deposits/surface with every exclude parameter, well formed or not
SurfaceAny == SurfaceWith(ExcludeParams)

NextSurface ==
    \/ Create
    \/ SoftDelete
    \/ MarkSurfaced
    \/ SurfaceAny

SpecSurface == Init /\ [][NextSurface]_vars

(* --------------------------- shared deposits -------------------------- *)
UserIds == {"u1", "u2"}

\* the two rows a completed accept leaves for the users a and b
AcceptedPair(a, b) ==
    {[id |-> 1, userId |-> a, connectedUserId |-> b, status |-> "accepted"],
     [id |-> 2, userId |-> b, connectedUserId |-> a, status |-> "accepted"]}

\* req.params.id of DELETE /api/circle/connections/:id: the ids of the two
\* rows and one id no row has
ConnectionIds == {c.id : c \in AcceptedPair("u1", "u2")} \cup {3}

\* bodies of POST /api/circle/shared-deposits
ShareBody(has, senderId, receiverId, status) ==
    [has |-> has, senderId |-> senderId, receiverId |-> receiverId,
     content |-> "x", status |-> status]

ShareBodies ==
    {ShareBody({"senderId", "receiverId", "content"}, a, b, 0) :
       a \in UserIds, b \in UserIds}
    \cup {ShareBody({"senderId", "receiverId", "content", "status"},
                    "u1", "u2", 7),
          ShareBody({"senderId", "content"}, "u1", "u2", 0)}

\* insertSharedDepositSchema.safeParse: senderId, receiverId and content
ShareParseOk(body) == {"senderId", "receiverId", "content"} \subseteq body.has

\* a check that asks only whether the sender has an accepted connection
ConnectedToAnyone(senderId, receiverId) ==
    \E c \in connections :
       /\ c.userId = senderId
       /\ c.status = "accepted"

\* where(and(eq(userId, senderId), eq(connectedUserId, receiverId),
\*           eq(status, "accepted")))
Connected(senderId, receiverId) ==
    \E c \in connections :
       /\ c.userId = senderId
       /\ c.connectedUserId = receiverId
       /\ c.status = "accepted"

\* .values({ ...result.data, status: 0 }) with the column defaults
SharedRow(id, data) ==
    [id |-> id, senderId |-> data.senderId, receiverId |-> data.receiverId,
     content |-> data.content, status |-> 0, lastSurfacedAt |-> NullTime,
     createdAt |-> now]

\* POST /api/circle/shared-deposits, while the table holds fewer than limit
\* rows
ShareUpTo(limit) ==
    /\ \E body \in ShareBodies :
         IF ~ShareParseOk(body)
         THEN /\ lastCall' = Respond(IdRequest("share", 0, body), 400, NoRows)
              /\ UNCHANGED sharedDeposits
         ELSE IF ~Connected(body.senderId, body.receiverId)
         THEN /\ lastCall' = Respond(IdRequest("share", 0, body), 403, NoRows)
              /\ UNCHANGED sharedDeposits
         ELSE /\ Len(sharedDeposits) < limit
              /\ LET sharedDeposit == SharedRow(Len(sharedDeposits) + 1, body)
                 IN /\ sharedDeposits' = Append(sharedDeposits, sharedDeposit)
                    /\ lastCall' = Respond(IdRequest("share", 0, body), 201,
                                           <<sharedDeposit>>)
    /\ UNCHANGED <<localVars, storeVars, now, sharedDepositUsage, connections,
                   useInFlight, logVars, inviteVars>>

Share == ShareUpTo(MaxShared)

\* the DELETE of both directions: or(and(userId, connectedUserId),
\*                                     and(connectedUserId, userId))
SamePair(c, connection) ==
    \/ /\ c.userId = connection.userId
       /\ c.connectedUserId = connection.connectedUserId
    \/ /\ c.userId = connection.connectedUserId
       /\ c.connectedUserId = connection.userId

\* DELETE /api/circle/connections/:id, the id drawn from ids
RemoveConnectionOf(ids) ==
    /\ \E id \in ids :
         LET found == {c \in connections : c.id = id}
             req == IdRequest("removeConnection", id, EmptyBody)
         IN IF found = {}
            THEN /\ lastCall' = Respond(req, 404, NoRows)
                 /\ UNCHANGED connections
            ELSE \E connection \in found :
                   /\ connections' =
                        {c \in connections : ~SamePair(c, connection)}
                   /\ lastCall' = Respond(req, 200, NoRows)
    /\ UNCHANGED <<localVars, storeVars, now, sharedDeposits,
                   sharedDepositUsage, useInFlight, logVars, inviteVars>>

RemoveConnection == RemoveConnectionOf(ConnectionIds)

\* a filter on the status alone, whoever the receiver is
EligibleSharedAnyReceiver(table, userId) ==
    {id \in DOMAIN table : table[id].status = 0}

\* where(and(eq(receiverId, userId), eq(status, 0)))
EligibleShared(table, userId) ==
    {id \in DOMAIN table :
       table[id].receiverId = userId /\ table[id].status = 0}

\* the responses GET /api/circle/shared-deposits/surface/:userId can send
SurfaceSharedResults(table, userId) ==
    LET eligibleShared == SetToSeq(EligibleShared(table, userId))
    IN IF Len(eligibleShared) = 0 THEN {NoRows}
       ELSE {<<table[eligibleShared[i + 1]]>> :
               i \in RandomIndex(Len(eligibleShared))}

\* GET /api/circle/shared-deposits/surface/:userId
SurfaceForReceiver ==
    /\ \E userId \in UserIds :
         \E result \in SurfaceSharedResults(sharedDeposits, userId) :
            lastCall' = Respond(Request("surfaceForReceiver", 0, userId,
                                           EmptyBody, <<>>, ""), 200, result)
    /\ UNCHANGED <<localVars, storeVars, now, circleVars, logVars>>

\* helpful of the body of use: true, false or absent
HelpfulInputs == {"true", "false", "undefined"}

\* the request of use: the id and the body's helpful
UseRequest(id, helpful) ==
    Request("use", id, "", EmptyBody, <<>>, helpful)

\* a ledger that records every use as helpful
HelpfulAlways(helpful) == "true"

\* helpful ?? null
HelpfulOrNull(helpful) == IF helpful = "undefined" THEN NullText ELSE helpful

\* .set({ lastSurfacedAt: new Date(), status: 30 })
UsedData == [has |-> {"lastSurfacedAt", "status"}, status |-> SurfaceCooldown,
             lastSurfacedAt |-> now]

ApplyUsed(row, data) ==
    [row EXCEPT !.status = data.status, !.lastSurfacedAt = data.lastSurfacedAt]

\* POST /api/circle/shared-deposits/:id/use, first statement: the UPDATE of
\* shared_deposits; an unknown id is answered 404 at once.  ids are
\* the ids of a table of at most rows rows, uses bounds the calls of use.
UseUpdateUpTo(rows, uses) ==
    /\ Len(sharedDepositUsage) + Cardinality(useInFlight) < uses
    /\ \E id \in 1..rows, helpful \in HelpfulInputs :
         IF id \notin DOMAIN sharedDeposits
         THEN /\ lastCall' = Respond(UseRequest(id, helpful), 404, NoRows)
              /\ UNCHANGED <<sharedDeposits, useInFlight>>
         ELSE /\ [id |-> id, helpful |-> helpful] \notin
                    {[id |-> u.id, helpful |-> u.helpful] : u \in useInFlight}
              /\ sharedDeposits' =
                   [sharedDeposits EXCEPT ![id] = ApplyUsed(@, UsedData)]
              /\ useInFlight' = useInFlight \cup
                   {[id |-> id, helpful |-> helpful,
                     updated |-> ApplyUsed(sharedDeposits[id], UsedData)]}
              /\ UNCHANGED lastCall
    /\ UNCHANGED <<localVars, storeVars, now, sharedDepositUsage, connections,
                   logVars, inviteVars>>

\* use without the check of the UPDATE's result: the INSERT follows for an
\* unknown id as well
UseUpdateUnchecked ==
    /\ Len(sharedDepositUsage) + Cardinality(useInFlight) < MaxUses
    /\ \E id \in 1..MaxShared, helpful \in HelpfulInputs :
         /\ [id |-> id, helpful |-> helpful] \notin
               {[id |-> u.id, helpful |-> u.helpful] : u \in useInFlight}
         /\ sharedDeposits' =
              IF id \in DOMAIN sharedDeposits
              THEN [sharedDeposits EXCEPT ![id] = ApplyUsed(@, UsedData)]
              ELSE sharedDeposits
         /\ useInFlight' = useInFlight \cup
              {[id |-> id, helpful |-> helpful,
                updated |-> IF id \in DOMAIN sharedDeposits
                            THEN ApplyUsed(sharedDeposits[id], UsedData)
                            ELSE UsedData]}
         /\ UNCHANGED lastCall
    /\ UNCHANGED <<localVars, storeVars, now, sharedDepositUsage, connections,
                   logVars, inviteVars>>

UseUpdate == UseUpdateUpTo(MaxShared, MaxUses)

\* an INSERT that keeps one usage row, the latest
UseInsertLatestOnly ==
    /\ \E u \in useInFlight :
         /\ sharedDepositUsage' =
              <<[sharedDepositId |-> u.id, usedAt |-> now,
                 helpful |-> HelpfulOrNull(u.helpful)]>>
         /\ useInFlight' = useInFlight \ {u}
         /\ lastCall' = Respond(UseRequest(u.id, u.helpful), 200,
                                <<u.updated>>)
    /\ UNCHANGED <<localVars, storeVars, now, sharedDeposits, connections,
                   logVars, inviteVars>>

\* second statement of use: the INSERT into shared_deposit_usage, and the
\* response
UseInsert ==
    /\ \E u \in useInFlight :
         /\ sharedDepositUsage' = Append(sharedDepositUsage,
              [sharedDepositId |-> u.id, usedAt |-> now,
               helpful |-> HelpfulOrNull(u.helpful)])
         /\ useInFlight' = useInFlight \ {u}
         /\ lastCall' = Respond(UseRequest(u.id, u.helpful), 200,
                                <<u.updated>>)
    /\ UNCHANGED <<localVars, storeVars, now, sharedDeposits, connections,
                   logVars, inviteVars>>

\* second statement of use when the INSERT throws: the catch answers 500 and
\* the UPDATE of the first statement stays, there is no transaction
UseInsertFails ==
    /\ \E u \in useInFlight :
         /\ useInFlight' = useInFlight \ {u}
         /\ lastCall' = Respond(UseRequest(u.id, u.helpful), 500, NoRows)
    /\ UNCHANGED <<localVars, storeVars, now, sharedDeposits,
                   sharedDepositUsage, connections, logVars, inviteVars>>

(* ---------------------------- sender summary -------------------------- *)
\* setDate(getDate() - weeksBack * 7): now counts days
DaysPerWeek == 7
\* parseInt(...) || 2
DefaultWeeks == 2

DigitChars == <<"0", "1", "2", "3", "4", "5", "6", "7", "8", "9">>

IsDigit(c) == \E d \in DOMAIN DigitChars : DigitChars[d] = c

DigitValue(c) == (CHOOSE d \in DOMAIN DigitChars : DigitChars[d] = c) - 1

\* the value of the longest prefix of digits of str, after acc
RECURSIVE DigitsValue(_, _)
DigitsValue(str, acc) ==
    IF str = <<>> \/ ~IsDigit(Head(str)) THEN acc
    ELSE DigitsValue(Tail(str), 10 * acc + DigitValue(Head(str)))

\* parseInt(str): an optional sign, then digits up to the first character
\* that is not a digit; NaN when no digit follows the sign
ParseInt(str) ==
    LET negative == str # <<>> /\ Head(str) = "-"
        digits == IF str # <<>> /\ Head(str) \in {"-", "+"} THEN Tail(str)
                  ELSE str
    IN IF digits = <<>> \/ ~IsDigit(Head(digits))
       THEN [isNaN |-> TRUE, value |-> 0]
       ELSE [isNaN |-> FALSE,
             value |-> IF negative THEN 0 - DigitsValue(digits, 0)
                       ELSE DigitsValue(digits, 0)]

\* req.query of GET /api/circle/summary/:userId: weeks, or nothing
WeeksQuery(has, weeks) == [has |-> has, weeks |-> weeks]

WeeksQueries ==
    {WeeksQuery({}, <<>>)} \cup
    {WeeksQuery({"weeks"}, weeks) :
       weeks \in {<<"1">>, <<"2">>, <<"0">>, <<"-", "1">>, <<"a">>,
                  <<"1", ".", "5">>}}

\* parseInt(req.query.weeks as string) || 2: NaN and 0 are falsy
WeeksBack(query) ==
    LET parsed == IF "weeks" \in query.has THEN ParseInt(query.weeks)
                  ELSE [isNaN |-> TRUE, value |-> 0]
    IN IF parsed.isNaN \/ parsed.value = 0 THEN DefaultWeeks
       ELSE parsed.value

\* cutoffDate.setDate(cutoffDate.getDate() - weeksBack * 7)
CutoffDate(today, weeksBack) == today - weeksBack * DaysPerWeek

\* select({ id }).from(sharedDeposits).where(eq(senderId, userId))
SentDepositIds(table, userId) ==
    {id \in DOMAIN table : table[id].senderId = userId}

\* the usage rows of every sender
UsagesOfAnySender(ledger, depositIds, cutoffDate) ==
    {i \in DOMAIN ledger : ledger[i].usedAt >= cutoffDate}

\* where(and(sharedDepositId = ANY(depositIds), gte(usedAt, cutoffDate)))
Usages(ledger, depositIds, cutoffDate) ==
    {i \in DOMAIN ledger :
       /\ ledger[i].sharedDepositId \in depositIds
       /\ ledger[i].usedAt >= cutoffDate}

\* res.json({ totalUses, helpfulUses, weeks: weeksBack })
SummaryRow(totalUses, helpfulUses, weeks) ==
    [totalUses |-> totalUses, helpfulUses |-> helpfulUses, weeks |-> weeks]

\* the response body of GET /api/circle/summary/:userId over the tables
\* shared_deposits (table) and shared_deposit_usage (ledger) on the day today
SummaryOf(table, ledger, today, userId, query) ==
    LET weeksBack == WeeksBack(query)
        depositIds == SentDepositIds(table, userId)
        usages == Usages(ledger, depositIds, CutoffDate(today, weeksBack))
    IN IF depositIds = {} THEN SummaryRow(0, 0, weeksBack)
       ELSE SummaryRow(Cardinality(usages),
                       Cardinality({i \in usages :
                                      ledger[i].helpful = "true"}),
                       weeksBack)

\* GET /api/circle/summary/:userId, the query drawn from queries
SummaryWith(queries) ==
    /\ \E userId \in UserIds, query \in queries :
         lastCall' = Respond(Request("summary", 0, userId, query, <<>>, ""),
                             200,
                             <<SummaryOf(sharedDeposits, sharedDepositUsage,
                                         now, userId, query)>>)
    /\ UNCHANGED <<localVars, storeVars, now, circleVars, logVars>>

Summary == SummaryWith(WeeksQueries)

\* orderBy(desc(createdAt)): the orders of the rows ids in which no row is
\* newer than a row before it
NewestFirst(table, ids) ==
    {order \in [1..Cardinality(ids) -> ids] :
       /\ \A i, j \in DOMAIN order : i # j => order[i] # order[j]
       /\ \A i, j \in DOMAIN order :
            i < j => table[order[i]].createdAt >= table[order[j]].createdAt}

\* the responses GET /api/circle/shared-deposits/sent/:userId can send: the
\* rows the user sent, whole, newest first
SentResults(table, userId) ==
    {[i \in DOMAIN order |-> table[order[i]]] :
       order \in NewestFirst(table, SentDepositIds(table, userId))}

\* GET /api/circle/shared-deposits/sent/:userId
ListSent ==
    /\ \E userId \in UserIds :
         \E sent \in SentResults(sharedDeposits, userId) :
            lastCall' = Respond(Request("sent", 0, userId, EmptyBody, <<>>, ""),
                                200, sent)
    /\ UNCHANGED <<localVars, storeVars, now, circleVars, logVars>>

\* the latest day the summary is asked on: the first day past the window
\* of one week of a usage row of day 0
SummaryHorizon == DaysPerWeek + 1

\* time passes between requests: a week, or a week and a day
PassDays ==
    /\ \E days \in {DaysPerWeek, DaysPerWeek + 1} :
         /\ now + days <= SummaryHorizon
         /\ now' = now + days
    /\ UNCHANGED <<localVars, storeVars, circleVars, lastCall, logVars>>

(* ------------------------- invites and accepts ------------------------ *)
\* the users of the circle routes: an inviter and two others
CircleUsers == UserIds \cup {"u3"}

\* req.body of POST /api/circle/invites: senderId and inviteType, "" when
\* the key is missing
InviteBodies ==
    {[senderId |-> a, inviteType |-> "link"] : a \in CircleUsers}
    \cup {[senderId |-> "", inviteType |-> "link"],
          [senderId |-> "u1", inviteType |-> ""]}

\* .values({ senderId, inviteType, inviteValue, inviteCode, expiresAt }) with
\* the column default of status; the invite code is the row's number
InviteRow(id, senderId) ==
    [id |-> id, inviteCode |-> id, senderId |-> senderId,
     status |-> "pending", expiresAt |-> now + DaysPerWeek]

InviteRequest(op, code, userId) == Request(op, code, userId, EmptyBody, <<>>, "")

\* POST /api/circle/invites, while the table holds fewer than limit rows
CreateInviteUpTo(limit) ==
    /\ \E body \in InviteBodies :
         LET req == Request("createInvite", 0, body.senderId, EmptyBody, <<>>,
                            body.inviteType)
         IN IF body.senderId = "" \/ body.inviteType = ""
            THEN /\ lastCall' = Respond(req, 400, NoRows)
                 /\ UNCHANGED circleInvites
            ELSE /\ Len(circleInvites) < limit
                 /\ LET invite == InviteRow(Len(circleInvites) + 1,
                                            body.senderId)
                    IN /\ circleInvites' = Append(circleInvites, invite)
                       /\ lastCall' = Respond(req, 201, <<invite>>)
    /\ UNCHANGED <<localVars, storeVars, now, sharedDeposits,
                   sharedDepositUsage, connections, useInFlight, logVars,
                   acceptInFlight, connectionSeq>>

CreateInvite == CreateInviteUpTo(MaxInvites)

\* req.params.code: the codes of MaxInvites invites and one no invite has
InviteCodes == 1..(MaxInvites + 1)

\* GET /api/circle/invites/:code
GetInvite ==
    /\ \E code \in InviteCodes :
         LET req == InviteRequest("getInvite", code, "")
         IN IF code \notin DOMAIN circleInvites
            THEN /\ lastCall' = Respond(req, 404, NoRows)
                 /\ UNCHANGED circleInvites
            ELSE LET invite == circleInvites[code]
                 IN IF invite.status # "pending"
                    THEN /\ lastCall' = Respond(req, 400, NoRows)
                         /\ UNCHANGED circleInvites
                    ELSE IF now > invite.expiresAt
                    THEN /\ circleInvites' =
                              [circleInvites EXCEPT ![code].status = "expired"]
                         /\ lastCall' = Respond(req, 400, NoRows)
                    ELSE /\ lastCall' = Respond(req, 200, <<invite>>)
                         /\ UNCHANGED circleInvites
    /\ UNCHANGED <<localVars, storeVars, now, sharedDeposits,
                   sharedDepositUsage, connections, useInFlight, logVars,
                   acceptInFlight, connectionSeq>>

\* the rows between the two users, in either direction
ExistingConnections(a, b) ==
    {c \in connections :
       \/ c.userId = a /\ c.connectedUserId = b
       \/ c.userId = b /\ c.connectedUserId = a}

\* the checks of accept without the one for the sender's own invite
AcceptErrorOwnAllowed(code, userId) ==
    IF userId = "" THEN "User ID required"
    ELSE IF code \notin DOMAIN circleInvites THEN "Invite not found"
    ELSE IF circleInvites[code].status # "pending"
    THEN "Invite already used or expired"
    ELSE IF ExistingConnections(circleInvites[code].senderId, userId) # {}
    THEN "Already connected"
    ELSE ""

\* the checks of accept: "" when they pass, else the error of the response
AcceptError(code, userId) ==
    IF userId = "" THEN "User ID required"
    ELSE IF code \notin DOMAIN circleInvites THEN "Invite not found"
    ELSE IF circleInvites[code].status # "pending"
    THEN "Invite already used or expired"
    ELSE IF circleInvites[code].senderId = userId
    THEN "Cannot accept your own invite"
    ELSE IF ExistingConnections(circleInvites[code].senderId, userId) # {}
    THEN "Already connected"
    ELSE ""

AcceptErrorCode(error) == IF error = "Invite not found" THEN 404 ELSE 400

\* req.body.userId of accept: a user, or nothing
AcceptUsers == CircleUsers \cup {""}

\* an accept request that has passed its checks: the invite it read, the
\* user, the statement it runs next (or done, failed) and the rows it has
\* inserted; connection2 is history, the handler does not keep it
AcceptState(n, invite, userId, pc, connection1, connection2) ==
    [n |-> n, invite |-> invite, userId |-> userId, pc |-> pc,
     connection1 |-> connection1, connection2 |-> connection2]

\* the statements of accept that write
AcceptWrites == {"insert1", "insert2", "update"}

NoConnection == [id |-> 0, userId |-> "", connectedUserId |-> "",
                 status |-> ""]

\* a row left with the column default of status
ConnectionRowPending(id, userId, connectedUserId) ==
    [id |-> id, userId |-> userId, connectedUserId |-> connectedUserId,
     status |-> "pending"]

\* .values({ userId, connectedUserId, status: "accepted", acceptedAt })
ConnectionRow(id, userId, connectedUserId) ==
    [id |-> id, userId |-> userId, connectedUserId |-> connectedUserId,
     status |-> "accepted"]

\* POST /api/circle/invites/:code/accept, up to the last check: the request
\* is answered 400 or 404, or goes on to its writes; at most limit requests
\* get that far
AcceptCheckUpTo(limit) ==
    /\ \E code \in InviteCodes, userId \in AcceptUsers :
         LET error == AcceptError(code, userId)
             req == InviteRequest("accept", code, userId)
         IN IF error # ""
            THEN /\ lastCall' = Respond(req, AcceptErrorCode(error), NoRows)
                 /\ UNCHANGED acceptInFlight
            ELSE /\ Cardinality(acceptInFlight) < limit
                 /\ acceptInFlight' = acceptInFlight \cup
                      {AcceptState(Cardinality(acceptInFlight) + 1,
                                   circleInvites[code], userId, "insert1",
                                   NoConnection, NoConnection)}
                 /\ UNCHANGED lastCall
    /\ UNCHANGED <<localVars, storeVars, now, sharedDeposits,
                   sharedDepositUsage, connections, useInFlight, logVars,
                   circleInvites, connectionSeq>>

AcceptCheck == AcceptCheckUpTo(MaxAccepts)

\* accept, first INSERT: the row from the sender of the invite to the user
AcceptInsert1 ==
    /\ \E r \in acceptInFlight :
         /\ r.pc = "insert1"
         /\ LET connection1 == ConnectionRow(connectionSeq + 1,
                                             r.invite.senderId, r.userId)
            IN /\ connections' = connections \cup {connection1}
               /\ acceptInFlight' = (acceptInFlight \ {r}) \cup
                    {[r EXCEPT !.pc = "insert2",
                               !.connection1 = connection1]}
         /\ connectionSeq' = connectionSeq + 1
    /\ UNCHANGED <<localVars, storeVars, now, sharedDeposits,
                   sharedDepositUsage, useInFlight, logVars, circleInvites,
                   lastCall>>

\* accept, second INSERT: the row from the user to the sender of the invite
AcceptInsert2 ==
    /\ \E r \in acceptInFlight :
         /\ r.pc = "insert2"
         /\ LET connection2 == ConnectionRow(connectionSeq + 1, r.userId,
                                             r.invite.senderId)
            IN /\ connections' = connections \cup {connection2}
               /\ acceptInFlight' = (acceptInFlight \ {r}) \cup
                    {[r EXCEPT !.pc = "update",
                               !.connection2 = connection2]}
         /\ connectionSeq' = connectionSeq + 1
    /\ UNCHANGED <<localVars, storeVars, now, sharedDeposits,
                   sharedDepositUsage, useInFlight, logVars, circleInvites,
                   lastCall>>

\* accept, the UPDATE of the invite and the response
AcceptUpdate ==
    /\ \E r \in acceptInFlight :
         /\ r.pc = "update"
         /\ circleInvites' =
              [circleInvites EXCEPT ![r.invite.id].status = "accepted"]
         /\ acceptInFlight' = (acceptInFlight \ {r}) \cup
              {[r EXCEPT !.pc = "done"]}
         /\ lastCall' = Respond(InviteRequest("accept", r.invite.inviteCode,
                                              r.userId),
                                200, <<r.connection1>>)
    /\ UNCHANGED <<localVars, storeVars, now, sharedDeposits,
                   sharedDepositUsage, connections, useInFlight, logVars,
                   connectionSeq>>

\* accept when the statement it runs next throws: the catch answers 500 and
\* what the request has written stays, there is no transaction
AcceptFails ==
    /\ \E r \in acceptInFlight :
         /\ r.pc \in AcceptWrites
         /\ acceptInFlight' = (acceptInFlight \ {r}) \cup
              {[r EXCEPT !.pc = "failed"]}
         /\ lastCall' = Respond(InviteRequest("accept", r.invite.inviteCode,
                                              r.userId), 500, NoRows)
    /\ UNCHANGED <<localVars, storeVars, now, sharedDeposits,
                   sharedDepositUsage, connections, useInFlight, logVars,
                   circleInvites, connectionSeq>>

\* remove with the id of any row that was ever inserted, and one more
RemoveAny == RemoveConnectionOf(1..(2 * MaxAccepts + 3))

InitShared ==
    /\ deposits = <<>>
    /\ sharedDeposits = <<>>
    /\ sharedDepositUsage = <<>>
    /\ connections \in {{}, AcceptedPair("u1", "u2")}
    /\ useInFlight = {}
    /\ now = 0
    /\ surfacedSince = {}
    /\ lastCall = InitCall
    /\ rainyDayLogs = <<>>
    /\ session = NoSession
    /\ circleInvites = <<>>
    /\ acceptInFlight = {}
    /\ connectionSeq = Cardinality(connections)
    /\ memories = {}
    /\ deleted = {}

NextShared ==
    \/ Create
    \/ MarkSurfaced
    \/ Surface
    \/ Share
    \/ SurfaceForReceiver
    \/ UseUpdate
    \/ UseInsert

SpecShared == InitShared /\ [][NextShared]_vars

(* ------------------- sharing while connections end -------------------- *)
NextCircle ==
    \/ Share
    \/ RemoveConnection
    \/ SurfaceForReceiver
    \/ UseUpdate
    \/ UseInsert

SpecCircle == InitShared /\ [][NextCircle]_vars

(* ------------------ use, statement by statement ----------------------- *)
NextUse ==
    \/ Share
    \/ SurfaceForReceiver
    \/ UseUpdate
    \/ UseInsert
    \/ UseInsertFails

SpecUse == InitShared /\ [][NextUse]_vars

(* --------------------- the usage ledger as it grows ------------------- *)
\* share and use with room for one more row than the other specifications
ShareMore == ShareUpTo(MaxShared + 1)

UseUpdateMore == UseUpdateUpTo(MaxShared + 1, MaxUses + 1)

NextLedger ==
    \/ ShareMore
    \/ UseUpdateMore
    \/ UseInsert
    \/ UseInsertFails

SpecLedger == InitShared /\ [][NextLedger]_vars

(* ------------------- the summary a sender is given -------------------- *)
\* a share that is accepted, of a body without a status, before the first
\* use
ShareSent ==
    /\ ShareMore
    /\ lastCall'.code = 201
    /\ "status" \notin lastCall'.body.has
    /\ sharedDepositUsage = <<>>
    /\ useInFlight = {}

\* the first statement of use for a shared deposit that exists, one call of
\* use at a time, with helpful true or false
UseKnown ==
    /\ UseUpdateMore
    /\ useInFlight = {}
    /\ useInFlight' # useInFlight
    /\ \A u \in useInFlight' : u.helpful # "undefined"

\* the summary asked with no weeks and with weeks=1
SummaryOfWeeks ==
    SummaryWith({WeeksQuery({}, <<>>), WeeksQuery({"weeks"}, <<"1">>)})

\* the days that pass once the ledger holds a row: the age of the usage rows
\* is what the window of the summary looks at
PassDaysAfterUse ==
    /\ PassDays
    /\ sharedDepositUsage # <<>>
    /\ useInFlight = {}

NextSummary ==
    \/ ShareSent
    \/ UseKnown
    \/ UseInsert
    \/ SummaryOfWeeks
    \/ PassDaysAfterUse

SpecSummary == InitShared /\ [][NextSummary]_vars

(* ------------- share, surface, use and the summary of it -------------- *)
\* the first statement of use for a shared deposit that exists
UseExisting == UseUpdate /\ useInFlight' # useInFlight

\* the summary asked without weeks
SummaryDefault == SummaryWith({WeeksQuery({}, <<>>)})

NextScenario ==
    \/ Share
    \/ SurfaceForReceiver
    \/ UseExisting
    \/ UseInsert
    \/ SummaryDefault

SpecScenario == InitShared /\ [][NextScenario]_vars

(* ------------------ the summary with every weeks query ---------------- *)
NextWeeks ==
    \/ Share
    \/ UseExisting
    \/ UseInsert
    \/ Summary

SpecWeeks == InitShared /\ [][NextWeeks]_vars

(* ---------------------- what a sender can read ------------------------ *)
NextSent ==
    \/ ShareMore
    \/ UseExisting
    \/ UseInsert
    \/ ListSent
    \/ SummaryDefault
    \/ PassDays

SpecSent == InitShared /\ [][NextSent]_vars

(* ------------------- accepting invites, step by step ------------------ *)
\* an invite that u1 creates
InviteSent ==
    /\ CreateInvite
    /\ lastCall'.code = 201
    /\ lastCall'.userId = "u1"

\* an accept that passes its checks
AcceptPasses == AcceptCheck /\ acceptInFlight' # acceptInFlight

\* a remove for the id of a row that exists
RemoveExisting == RemoveAny /\ lastCall'.code = 200

NextAccept ==
    \/ InviteSent
    \/ AcceptPasses
    \/ AcceptInsert1
    \/ AcceptInsert2
    \/ AcceptUpdate
    \/ AcceptFails
    \/ RemoveExisting

SpecAccept == InitShared /\ [][NextAccept]_vars

(* ----------------------- invites as they age -------------------------- *)
NextExpiry ==
    \/ InviteSent
    \/ PassDays
    \/ GetInvite
    \/ AcceptCheck
    \/ AcceptInsert1
    \/ AcceptInsert2
    \/ AcceptUpdate

SpecExpiry == Init /\ [][NextExpiry]_vars

(* ------------------- sharing after a removed connection --------------- *)
\* u1 and u2 start connected: the rows 1 and 2 of a completed accept
InitConnected == InitShared /\ connections = AcceptedPair("u1", "u2")

NextReconnect ==
    \/ RemoveExisting
    \/ InviteSent
    \/ AcceptPasses
    \/ AcceptInsert1
    \/ AcceptInsert2
    \/ AcceptUpdate
    \/ AcceptFails
    \/ Share

SpecReconnect == InitConnected /\ [][NextReconnect]_vars

(* ------------------ the History screen's status modal ----------------- *)
\* what the user can leave in the cooldown field: nothing, a letter, 0, 1,
\* 2, -1, -2, 1.5, 1a, 30
CooldownEntries ==
    {<<>>, <<"a">>, <<"0">>, <<"1">>, <<"2">>, <<"-", "1">>, <<"-", "2">>,
     <<"1", ".", "5">>, <<"1", "a">>, <<"3", "0">>}

\* a check that only asks for a number
ValidDaysAnyNumber(days) == ~days.isNaN

\* !(isNaN(days) || days < 1)
ValidDays(days) == ~(days.isNaN \/ days.value < 1)

\* the status values handleSetCooldown hands to onUpdateStatus for an entry:
\* parseInt(cooldownDays, 10) when it is valid, none after the alert
CooldownStatus(cooldownDays) ==
    LET days == ParseInt(cooldownDays)
    IN IF ValidDays(days) THEN {days.value} ELSE {}

\* HistoryScreen.handleUpdateStatus: PATCH /api/deposits/:id/status with
\* the body { status }
HandleUpdateStatus(id, status) ==
    /\ SetStatusCall(id, Body({"status"}, "", NullText, <<>>, status,
                              "number", NullTime))
    /\ UNCHANGED <<localVars, now, circleVars, logVars>>

\* StatusModal.handleSetCooldown on a memory of the loaded list
HandleSetCooldown ==
    \E id \in DOMAIN deposits, cooldownDays \in CooldownEntries :
       IF CooldownStatus(cooldownDays) = {}
       THEN UNCHANGED vars
       ELSE \E days \in CooldownStatus(cooldownDays) :
               HandleUpdateStatus(id, days)

\* StatusModal.handleMakeActive
HandleMakeActive == \E id \in DOMAIN deposits : HandleUpdateStatus(id, 0)

\* StatusModal.handleMakeInactive, the dialog confirmed or cancelled
HandleMakeInactive ==
    \E id \in DOMAIN deposits :
       \/ HandleUpdateStatus(id, SoftDeleted)
       \/ UNCHANGED vars

NextHistory ==
    \/ Create
    \/ MarkSurfaced
    \/ HandleSetCooldown
    \/ HandleMakeActive
    \/ HandleMakeInactive

SpecHistory == Init /\ [][NextHistory]_vars

(* ------------- a deposit in cooldown while time passes ---------------- *)
\* an update request for a deposit in cooldown, its body with a status key
\* besides the three keys the handler reads
UpdateCooling ==
    /\ Update
    /\ "status" \in lastCall'.body.has
    /\ lastCall'.id \in surfacedSince

\* the first surface request of a session: nothing excluded
SurfaceFresh == SurfaceWith({<<>>})

\* the first log, referencing a deposit
CreateLogOfDeposit ==
    /\ CreateLog
    /\ rainyDayLogs = <<>>
    /\ lastCall'.code = 201
    /\ lastCall'.body.depositId # NullId

\* a thumbs-up for a stored log
FeedbackRated == Feedback /\ lastCall'.code = 200 /\ lastCall'.body.rating = 1

\* time passes while a deposit is in cooldown
TickCooling == Tick /\ surfacedSince # {}

NextCooldown ==
    \/ Create
    \/ UpdateCooling
    \/ MarkSurfaced
    \/ SurfaceFresh
    \/ CreateLogOfDeposit
    \/ FeedbackRated
    \/ TickCooling

SpecCooldown == Init /\ [][NextCooldown]_vars

(* ------------- a session the user leaves at any moment ---------------- *)
NextLeave ==
    \/ CreateBefore
    \/ FindJoyFirst
    \/ SessionStep
    \/ Close
    \/ CloseWhileAdvancing

SpecLeave == Init /\ [][NextLeave]_vars

(* ---------------- a session with Skip pressed twice ------------------- *)
NextTaps ==
    \/ CreateBefore
    \/ FindJoyFirst
    \/ SessionStep
    \/ SkipAgain
    \/ SecondMark
    \/ SecondLog

SpecTaps == Init /\ [][NextTaps]_vars

(* --------------- a session whose log request can fail ----------------- *)
NextFailing ==
    \/ CreateBefore
    \/ FindJoyFirst
    \/ SessionStep
    \/ LogRequestFails

SpecFailing == Init /\ [][NextFailing]_vars

(* ------------------- accepts that run side by side -------------------- *)
\* one more invite than MaxInvites, all created by u1
InviteSentMore ==
    /\ CreateInviteUpTo(MaxInvites + 1)
    /\ lastCall'.code = 201
    /\ lastCall'.userId = "u1"

\* one more accept than MaxAccepts gets past its checks
AcceptPassesMore ==
    AcceptCheckUpTo(MaxAccepts + 1) /\ acceptInFlight' # acceptInFlight

NextRace ==
    \/ InviteSentMore
    \/ AcceptPassesMore
    \/ AcceptInsert1
    \/ AcceptInsert2
    \/ AcceptUpdate

SpecRace == Init /\ [][NextRace]_vars

(* ------------- deleting on the deposit detail screen ------------------ *)
\* storage.deleteMemory(id): the list without id is written back when it is
\* shorter, otherwise nothing is written
DeleteMemory(list, id) == IF id \in list THEN list \ {id} ELSE list

\* MemoryDetailScreen.handleDelete for a deposit of the History list: it
\* awaits deleteMemory(memory.id) and goes back; no request is sent
HandleDelete ==
    /\ \E id \in DOMAIN deposits :
         /\ memories' = DeleteMemory(memories, id)
         /\ deleted' = deleted \cup {id}
    /\ UNCHANGED <<storeVars, now, circleVars, lastCall, logVars>>

NextDelete ==
    \/ Create
    \/ HandleDelete
    \/ MarkSurfaced
    \/ SurfaceFresh
    \/ List

SpecDelete == Init /\ [][NextDelete]_vars

(* ------------------------- the log routes alone ---------------------- *)
NextLogs ==
    \/ Create
    \/ CreateLog
    \/ Feedback

SpecLogs == Init /\ [][NextLogs]_vars

(* ------------------- requests for ids that do not exist --------------- *)
\* the requests of the routes that take an id, sent with an id no row has,
\* while create, create-log and share fill the tables
UpdateMissing == Update /\ lastCall'.id \notin DOMAIN deposits

SetStatusMissing == SetStatus /\ lastCall'.id \notin DOMAIN deposits

SoftDeleteMissing == SoftDelete /\ lastCall'.id \notin DOMAIN deposits

MarkSurfacedMissing == MarkSurfaced /\ lastCall'.id \notin DOMAIN deposits

FeedbackMissing == Feedback /\ lastCall'.id \notin DOMAIN rainyDayLogs

\* a use request whose UPDATE matches no row
UseMissing == UseUpdate /\ UNCHANGED sharedDeposits

NextMissing ==
    \/ Create
    \/ CreateLog
    \/ Share
    \/ UpdateMissing
    \/ SetStatusMissing
    \/ SoftDeleteMissing
    \/ MarkSurfacedMissing
    \/ FeedbackMissing
    \/ UseMissing

SpecMissing == InitShared /\ [][NextMissing]_vars

(* =============================== claims =============================== *)
\* the ids an exclude parameter lists: an id is listed when its string
\* stands between two separators, or ends, of the parameter
ListedIn(excludeParam) ==
    {id \in DepositIds :
       \E i \in DOMAIN excludeParam :
          /\ excludeParam[i] = id
          /\ (i = 1 \/ excludeParam[i - 1] = Comma)
          /\ (i = Len(excludeParam) \/ excludeParam[i + 1] = Comma)}

\* the deposits with status 0 that an exclude parameter does not list
ActiveOutside(excludeParam) ==
    {id \in DOMAIN deposits :
       deposits[id].status = 0 /\ id \notin ListedIn(excludeParam)}

\* a step that serves a request of route op
Serves(op) == lastCall' # lastCall /\ lastCall'.op = op

\* C1: after any sequence of create, update, setStatus, softDelete and
\* markSurfaced calls the server accepts, every deposit's status is -1, 0 or
\* a positive integer.
C1_StatusInDomain ==
    \A id \in DOMAIN deposits :
       \/ deposits[id].status = -1
       \/ deposits[id].status = 0
       \/ deposits[id].status > 0

\* C2: surface(excludeIds) answers null, or one stored deposit whose status
\* is 0 and whose id the exclude parameter does not list.
C2_SurfaceOnlyEligible ==
    lastCall.op = "surface" =>
       \/ lastCall.rows = NoRows
       \/ /\ Len(lastCall.rows) = 1
          /\ lastCall.rows[1].id \in DOMAIN deposits
          /\ lastCall.rows[1] = deposits[lastCall.rows[1].id]
          /\ lastCall.rows[1].status = 0
          /\ lastCall.rows[1].id \notin ListedIn(lastCall.excludeParam)

\* C2 witness: deposit 2 was surfaced while deposit 1, active as well, was
\* listed in the exclude parameter.
C2_Witness ==
    /\ lastCall.op = "surface"
    /\ lastCall.rows # NoRows
    /\ lastCall.rows[1].id = 2
    /\ 1 \in ListedIn(lastCall.excludeParam)
    /\ deposits[1].status = 0

\* C3: surface answers null exactly when no deposit has status 0 and an id
\* outside the exclusion; it always answers in one step, and every deposit
\* with status 0 outside the exclusion is one of its possible answers.
C3_SurfaceNoneIffNoEligible ==
    /\ lastCall.op = "surface" =>
          (lastCall.rows = NoRows <=> ActiveOutside(lastCall.excludeParam) = {})
    /\ \A excludeParam \in ExcludeParams :
          \A id \in ActiveOutside(excludeParam) :
             <<deposits[id]>> \in SurfaceResults(deposits, excludeParam)
    /\ ENABLED SurfaceAny

\* C3 witness: surface answered null although two deposits are active,
\* because the exclude parameter lists both.
C3_Witness ==
    /\ lastCall.op = "surface"
    /\ lastCall.rows = NoRows
    /\ Len(deposits) = 2
    /\ \A id \in DOMAIN deposits : deposits[id].status = 0
    /\ ListedIn(lastCall.excludeParam) = {1, 2}

\* C4: after a successful markSurfaced(id), a surface call with an empty
\* exclusion served before any other status write to that deposit does not
\* answer id.
C4_NoResurfaceAfterMark ==
    (lastCall.op = "surface" /\ lastCall.excludeParam = <<>>
       /\ lastCall.rows # NoRows)
    => lastCall.rows[1].id \notin surfacedSince

\* C4 witness: a surface call without exclusion answered a deposit while
\* another deposit was in the cooldown markSurfaced gave it.
C4_Witness ==
    /\ lastCall.op = "surface"
    /\ lastCall.excludeParam = <<>>
    /\ lastCall.rows # NoRows
    /\ surfacedSince # {}

\* C5: every step that writes a deposit's lastSurfacedAt writes the current
\* time and status 30 with it, and a served markSurfaced(id) has written
\* both: no step leaves lastSurfacedAt written and the status not.
C5_MarkSurfacedAtomic ==
    [][\A id \in DOMAIN deposits :
          /\ deposits'[id].lastSurfacedAt # deposits[id].lastSurfacedAt
             => /\ deposits'[id].lastSurfacedAt = now
                /\ deposits'[id].status = SurfaceCooldown
          /\ (Serves("markSurfaced") /\ lastCall'.code = 200
                /\ lastCall'.id = id)
             => /\ deposits'[id].lastSurfacedAt = now
                /\ deposits'[id].status = SurfaceCooldown
                /\ lastCall'.rows = <<deposits'[id]>>]_vars

\* C5 witness: markSurfaced was served for a deposit whose status a
\* setStatus call could have written before; the row holds both writes.
C5_Witness ==
    /\ lastCall.op = "markSurfaced"
    /\ lastCall.code = 200
    /\ now >= 1
    /\ deposits[lastCall.id].lastSurfacedAt = now
    /\ deposits[lastCall.id].status = SurfaceCooldown

\* C6: every deposit create answers with has status 0, whatever status the
\* request body carried.
C6_CreateStatusZero ==
    (lastCall.op = "create" /\ lastCall.code = 201)
    => /\ Len(lastCall.rows) = 1
       /\ lastCall.rows[1].status = 0
       /\ deposits[lastCall.rows[1].id] = lastCall.rows[1]

\* C6 witness: a create whose body carried status 7 was accepted.
C6_Witness ==
    /\ lastCall.op = "create"
    /\ lastCall.code = 201
    /\ "status" \in lastCall.body.has
    /\ lastCall.body.status = 7

\* C7: list without includeInactive=true answers exactly the deposits whose
\* status is not -1, each once and as stored; with includeInactive=true it
\* answers every deposit.
C7_ListContents ==
    lastCall.op = "list" =>
       LET ids == {lastCall.rows[i].id : i \in DOMAIN lastCall.rows}
       IN /\ \A i \in DOMAIN lastCall.rows :
                /\ lastCall.rows[i].id \in DOMAIN deposits
                /\ lastCall.rows[i] = deposits[lastCall.rows[i].id]
          /\ Cardinality(ids) = Len(lastCall.rows)
          /\ lastCall.includeInactive = "true" => ids = DOMAIN deposits
          /\ lastCall.includeInactive # "true" =>
                ids = {id \in DOMAIN deposits : deposits[id].status # -1}

\* C7 witness: list(false) answered a deposit in cooldown and left out a
\* deposit with status -1.
C7_Witness ==
    /\ lastCall.op = "list"
    /\ lastCall.includeInactive = "false"
    /\ \E i \in DOMAIN lastCall.rows : lastCall.rows[i].status > 0
    /\ \E id \in DOMAIN deposits : deposits[id].status = -1

\* C8: no step removes a deposit record; a served softDelete(id) changes
\* only the status of id, to -1, after which id is in no list(false) answer
\* and in every list(true) answer with status -1; a created deposit is in
\* every list(false) answer with status 0.
C8_SoftDeleteKeepsRecord ==
    [][/\ DOMAIN deposits \subseteq DOMAIN deposits'
       /\ \A id \in DOMAIN deposits : deposits'[id].id = id
       /\ (Serves("softDelete") /\ lastCall'.code = 200)
          => LET id == lastCall'.id
             IN /\ deposits'[id] = [deposits[id] EXCEPT !.status = -1]
                /\ \A r \in ListResults(deposits', FALSE) :
                      \A i \in DOMAIN r : r[i].id # id
                /\ \A r \in ListResults(deposits', TRUE) :
                      \E i \in DOMAIN r : r[i].id = id /\ r[i].status = -1
       /\ (Serves("create") /\ lastCall'.code = 201)
          => LET id == lastCall'.rows[1].id
             IN /\ id \notin DOMAIN deposits
                /\ \A r \in ListResults(deposits', FALSE) :
                      \E i \in DOMAIN r : r[i].id = id /\ r[i].status = 0]_vars

\* C8 witness: softDelete was served for a deposit that had been surfaced;
\* the record is still stored, with status -1.
C8_Witness ==
    /\ lastCall.op = "softDelete"
    /\ lastCall.code = 200
    /\ deposits[lastCall.id].status = -1
    /\ deposits[lastCall.id].lastSurfacedAt # NullTime

\* C9: a served update(id, body) leaves the status, lastSurfacedAt,
\* createdAt and id of every deposit, and every deposit other than id,
\* unchanged, and adds or removes no deposit.
C9_UpdateFrame ==
    [][Serves("update")
       => /\ DOMAIN deposits' = DOMAIN deposits
          /\ \A id \in DOMAIN deposits :
                /\ deposits'[id].status = deposits[id].status
                /\ deposits'[id].lastSurfacedAt = deposits[id].lastSurfacedAt
                /\ deposits'[id].createdAt = deposits[id].createdAt
                /\ deposits'[id].id = deposits[id].id
                /\ id # lastCall'.id => deposits'[id] = deposits[id]]_vars

\* C9 witness: an update whose body also carried a status key was applied
\* to a deposit in cooldown, which is still in cooldown.
C9_Witness ==
    /\ lastCall.op = "update"
    /\ lastCall.code = 200
    /\ "status" \in lastCall.body.has
    /\ deposits[lastCall.id].content = "y"
    /\ deposits[lastCall.id].status = SurfaceCooldown

\* C10: a step that serves surface or surfaceForReceiver changes no table;
\* a deposit surface answered, while no other request has been answered
\* since, still has status 0 and is a possible answer of the same call.
C10_SurfaceNoSideEffect ==
    /\ [][(Serves("surface") \/ Serves("surfaceForReceiver"))
          => UNCHANGED <<deposits, sharedDeposits, sharedDepositUsage,
                         connections>>]_vars
    /\ []((lastCall.op = "surface" /\ lastCall.rows # NoRows)
          => /\ deposits[lastCall.rows[1].id].status = 0
             /\ lastCall.rows \in SurfaceResults(deposits,
                                                 lastCall.excludeParam))

\* C10 witness: surface answered a deposit, which still has status 0, in a
\* store that also holds an active shared deposit.
C10_Witness ==
    /\ lastCall.op = "surface"
    /\ lastCall.rows # NoRows
    /\ deposits[lastCall.rows[1].id].status = 0
    /\ \E id \in DOMAIN sharedDeposits : sharedDeposits[id].status = 0

\* the tables of the server
tables ==
    <<deposits, rainyDayLogs, sharedDeposits, sharedDepositUsage, connections,
      circleInvites>>

\* a step that serves update, setStatus, softDelete, markSurfaced,
\* patch-feedback or use for an id its table does not hold
ServesMissing ==
    \/ /\ \E op \in {"update", "setStatus", "softDelete", "markSurfaced"} :
            Serves(op)
       /\ lastCall'.id \notin DOMAIN deposits
    \/ Serves("feedback") /\ lastCall'.id \notin DOMAIN rainyDayLogs
    \/ Serves("use") /\ lastCall'.id \notin DOMAIN sharedDeposits

\* the request of a call is one its route answers 200 for an existing id:
\* an update or a feedback that sets a field, a status that is a number, a
\* rating, when sent, of 2, 1 or -1
WouldSucceed(call) ==
    CASE call.op = "update" ->
           call.body.has \cap {"content", "emotion", "tags"} # {}
      [] call.op = "setStatus" -> call.body.statusType = "number"
      [] call.op = "feedback" ->
           /\ call.body.has \cap {"rating", "feedbackNote"} # {}
           /\ "rating" \in call.body.has => call.body.rating \in {2, 1, -1}
      [] OTHER -> TRUE

CurrentThumbsUp ==
    session.thumbsUp + (IF session.rating \in {2, 1} THEN 1 ELSE 0)

\* C12: a session that ended as complete has shown at least target deposits
\* and has at least one thumbs up, the current round's rating counted.
C12_CompleteOnlyWhenMet ==
    session.pc = "complete"
    => /\ session.shown >= session.target
       /\ CurrentThumbsUp > 0
       /\ session.updatedThumbsUp = CurrentThumbsUp

\* C12 witness: a session with target 1 is complete after two rounds, the
\* first of which was rated -1.
C12_Witness ==
    /\ session.pc = "complete"
    /\ session.target = 1
    /\ session.shown = 2
    /\ rainyDayLogs[session.logIds[1]].rating = -1

\* a step in which advanceOrExit runs, up to the answer of its surface
\* request: after a rating of 2 or 1, a saved note, or a skip
AdvanceRuns ==
    \/ session.pc = "advance" /\ session'.pc # "advance"
    \/ session.pc = "feedback"
       /\ session'.pc \in {"complete", "exhausted", "advMark"}

\* the session on screen is complete, the current round's rating counted
SessionComplete ==
    session.shown >= session.target /\ CurrentThumbsUp > 0

C15_EmptySession ==
    [][/\ session'.number = session.number + 1
          => /\ lastCall'.op = "surface"
             /\ lastCall'.excludeParam = <<>>
             /\ (\A id \in DOMAIN deposits : deposits[id].status # 0)
                <=> session'.pc = "joyNoDeposit"
             /\ UNCHANGED <<deposits, rainyDayLogs>>
       /\ (session.pc = "joyNoDeposit" /\ session'.pc # "joyNoDeposit")
          => /\ session'.pc = "empty"
             /\ Len(rainyDayLogs') = Len(rainyDayLogs) + 1
             /\ rainyDayLogs'[Len(rainyDayLogs')].depositId = NullId
             /\ session'.logIds = <<Len(rainyDayLogs')>>
             /\ session'.shownIds = <<>>
             /\ UNCHANGED deposits
       /\ session.pc = "empty"
          => /\ session'.pc = "empty"
             /\ rainyDayLogs' = rainyDayLogs]_vars

\* C15 witness: a session ended as empty on a store whose deposits are all
\* soft-deleted; its log has no deposit.
C15_Witness ==
    /\ session.pc = "empty"
    /\ Len(deposits) = MaxDeposits
    /\ \A id \in DOMAIN deposits : deposits[id].status = SoftDeleted
    /\ Len(rainyDayLogs) = 1
    /\ rainyDayLogs[1].depositId = NullId

\* the steps a running session has left at most: six for every deposit that
\* was eligible at its start and is not yet shown, and those of its round
StepsLeft ==
    6 * (Cardinality(session.eligibleAtStart) - session.shown)
    + CASE session.pc = "playback" -> 5
        [] session.pc = "feedback" -> 4
        [] session.pc = "advance" -> 3
        [] session.pc \in {"joyMark", "advMark"} -> 2
        [] session.pc \in {"joyLog", "advLog", "joyNoDeposit"} -> 1
        [] OTHER -> 0

\* C16: a session terminates when the user rates and advances every round
\* and no deposit is created or made active: while it runs a step of it is
\* possible, and every step of it ends it (as complete, exhausted or empty)
\* or leaves fewer steps; it shows no more deposits than were eligible at
\* its start, and only those; an advance whose surface request answers none
\* ends it at once, also when shown < target.
C16_SessionTerminates ==
    /\ [](/\ session.pc \notin {"idle"} \cup Ended => ENABLED SessionStep
          /\ session.pc \in Ended
             => session.pc \in {"complete", "exhausted", "empty"}
          /\ StepsLeft >= 0
          /\ session.shown <= Cardinality(session.eligibleAtStart)
          /\ Range(session.shownIds) \subseteq session.eligibleAtStart)
    /\ [][/\ SessionStep
             => \/ session'.pc \in Ended
                \/ StepsLeft' < StepsLeft
          /\ (AdvanceRuns /\ lastCall'.op = "surface"
                /\ lastCall'.rows = NoRows /\ session'.pc # "complete")
             => session'.pc = "exhausted"]_vars

\* C16 witness: a session with a target above the number of deposits ended
\* as exhausted before the target was met.
C16_Witness ==
    /\ session.pc = "exhausted"
    /\ session.shown < session.target
    /\ session.shown = Cardinality(session.eligibleAtStart)
    /\ session.shown >= 1

\* C17: the thumbsUp of the next round is the thumbsUp of the round before,
\* plus one when that round was rated 2 or 1; on every Playback screen
\* 0 <= thumbsUp < shown.
C17_ThumbsUpCarried ==
    /\ [][(session.pc = "advLog" /\ session'.pc = "playback")
          => session'.thumbsUp =
                session.thumbsUp + (IF session.rating \in {2, 1} THEN 1 ELSE 0)]_vars
    /\ [](session.pc \in {"playback", "feedback", "advance", "advMark",
                          "advLog"}
          => /\ 0 <= session.thumbsUp
             /\ session.thumbsUp < session.shown
             /\ session.rating \in {NullRating, 2, 1, -1})

\* C17 witness: round 2 is on screen with one thumbs up, carried over from
\* a first round that was rated 2.
C17_Witness ==
    /\ session.pc = "playback"
    /\ session.shown = 2
    /\ session.thumbsUp = 1
    /\ rainyDayLogs[session.logIds[1]].rating = 2

\* C18: every stored log's rating is null, 2, 1 or -1, and a feedback
\* request with any other rating is answered 400 and changes no log.
C18_RatingInSet ==
    /\ [](\A id \in DOMAIN rainyDayLogs :
             rainyDayLogs[id].rating \in {NullRating, 2, 1, -1})
    /\ [][(Serves("feedback") /\ "rating" \in lastCall'.body.has
             /\ lastCall'.body.rating \notin {2, 1, -1})
          => /\ lastCall'.code = 400
             /\ rainyDayLogs' = rainyDayLogs]_vars

\* an accepted row of the connections table from a to b
AcceptedRow(a, b) ==
    [userId |-> a, connectedUserId |-> b, status |-> "accepted"] \in
       {[userId |-> c.userId, connectedUserId |-> c.connectedUserId,
         status |-> c.status] : c \in connections}

\* C19: share adds a shared deposit only when an accepted connection row
\* from the sender to the receiver exists at the time of the call, and the
\* row it adds has status 0 whatever status the body carried; a share
\* request without that connection is answered 403 and adds nothing.
C19_ShareNeedsConnection ==
    [][Serves("share") =>
         LET body == lastCall'.body
         IN /\ sharedDeposits' # sharedDeposits =>
                 /\ AcceptedRow(body.senderId, body.receiverId)
                 /\ lastCall'.code = 201
            /\ (ShareParseOk(body)
                  /\ ~AcceptedRow(body.senderId, body.receiverId)) =>
                 /\ lastCall'.code = 403
                 /\ sharedDeposits' = sharedDeposits
            /\ lastCall'.code = 201 =>
                 /\ Len(sharedDeposits') = Len(sharedDeposits) + 1
                 /\ SubSeq(sharedDeposits', 1, Len(sharedDeposits))
                      = sharedDeposits
                 /\ lastCall'.rows = <<sharedDeposits'[Len(sharedDeposits')]>>
                 /\ lastCall'.rows[1].status = 0
                 /\ lastCall'.rows[1].senderId = body.senderId
                 /\ lastCall'.rows[1].receiverId = body.receiverId]_vars

\* C19 witness: a share whose body carried status 7 has been accepted and
\* the stored row has status 0.
C19_Witness ==
    /\ lastCall.op = "share"
    /\ lastCall.code = 201
    /\ "status" \in lastCall.body.has
    /\ lastCall.body.status = 7
    /\ sharedDeposits[Len(sharedDeposits)].status = 0

\* C20: surfaceForReceiver(userId) answers none or one stored shared deposit
\* whose receiverId is userId and whose status is 0, and it answers none
\* exactly when the user has no such shared deposit; it changes no table.
C20_SurfaceForReceiver ==
    [][Serves("surfaceForReceiver") =>
         LET userId == lastCall'.userId
             rows == lastCall'.rows
             mine == {id \in DOMAIN sharedDeposits :
                        /\ sharedDeposits[id].receiverId = userId
                        /\ sharedDeposits[id].status = 0}
         IN /\ lastCall'.code = 200
            /\ Len(rows) <= 1
            /\ rows # NoRows =>
                 /\ \E id \in DOMAIN sharedDeposits : rows[1] = sharedDeposits[id]
                 /\ rows[1].receiverId = userId
                 /\ rows[1].status = 0
            /\ rows = NoRows <=> mine = {}
            /\ tables' = tables]_vars

\* C20 witness: a receiver has been handed a shared deposit sent to them.
C20_Witness ==
    /\ lastCall.op = "surfaceForReceiver"
    /\ lastCall.rows # NoRows
    /\ lastCall.rows[1].receiverId = lastCall.userId
    /\ \E id \in DOMAIN sharedDeposits : sharedDeposits[id].id = lastCall.rows[1].id

\* C21: use is all-or-nothing: in every reachable state a shared deposit that
\* a use call has put into cooldown (status 30) has a usage row recorded for
\* it, also when the INSERT fails or other calls run between the statements.
C21_UseAllOrNothing ==
    \A id \in DOMAIN sharedDeposits :
       sharedDeposits[id].status = SurfaceCooldown =>
          \E i \in DOMAIN sharedDepositUsage :
             sharedDepositUsage[i].sharedDepositId = id

\* C22: the usage ledger is append-only: every step leaves the rows it
\* already holds in place and unchanged (sharedDepositId, usedAt, helpful),
\* so the ledger only grows.
C22_LedgerAppendOnly ==
    [][/\ Len(sharedDepositUsage') >= Len(sharedDepositUsage)
       /\ \A i \in DOMAIN sharedDepositUsage :
            sharedDepositUsage'[i] = sharedDepositUsage[i]]_vars

\* C22 witness: a second usage row has been appended to a ledger that
\* already held one.
C22_Witness ==
    /\ Len(sharedDepositUsage) >= 2
    /\ lastCall.op = "use"
    /\ lastCall.code = 200

\* the usage rows of deposits sent by userId that are at most weeks * 7 days
\* old
UsesOfSender(userId, weeks) ==
    {i \in DOMAIN sharedDepositUsage :
       /\ \E id \in DOMAIN sharedDeposits :
            /\ id = sharedDepositUsage[i].sharedDepositId
            /\ sharedDeposits[id].senderId = userId
       /\ now - sharedDepositUsage[i].usedAt <= weeks * 7}

\* C23: senderSummary answers totalUses = the number of usage rows of
\* deposits the user sent that are at most weeks * 7 days old, helpfulUses =
\* the number of those with helpful = true; rows of other senders' deposits
\* do not count, helpfulUses <= totalUses, and both are 0 with status 200
\* when the user has sent nothing.
C23_SummaryCounts ==
    [][Serves("summary") =>
         LET userId == lastCall'.userId
             row == lastCall'.rows[1]
             counted == UsesOfSender(userId, row.weeks)
         IN /\ lastCall'.code = 200
            /\ row.totalUses = Cardinality(counted)
            /\ row.helpfulUses =
                 Cardinality({i \in counted :
                                sharedDepositUsage[i].helpful = "true"})
            /\ row.helpfulUses <= row.totalUses
            /\ (\A id \in DOMAIN sharedDeposits :
                  sharedDeposits[id].senderId # userId) =>
                 (row.totalUses = 0 /\ row.helpfulUses = 0)]_vars

\* C23 witness: a summary counted one of two usage rows, the other being
\* of a deposit another user sent.
C23_Witness ==
    /\ lastCall.op = "summary"
    /\ lastCall.rows[1].totalUses = 1
    /\ Len(sharedDepositUsage) = 2
    /\ \E i \in DOMAIN sharedDepositUsage :
         sharedDeposits[sharedDepositUsage[i].sharedDepositId].senderId
            # lastCall.userId
    /\ Cardinality(UsesOfSender(lastCall.userId, lastCall.rows[1].weeks)) = 1

\* the summary a sender is given when the request carries no weeks
DefaultSummary(userId) ==
    SummaryOf(sharedDeposits, sharedDepositUsage, now, userId,
              WeeksQuery({}, <<>>))

\* C24: a shared deposit S that share has just stored can be returned by the
\* receiver's surfaceForReceiver; each use of S answered 200 raises the
\* sender's totalUses by 1 and the sender's helpfulUses by 1 exactly when
\* helpful is true; and after one share and one use with helpful = true the
\* sender's summary is {totalUses: 1, helpfulUses: 1, weeks: 2}.
C24_ShareUseSummary ==
    [][/\ (Serves("share") /\ lastCall'.code = 201) =>
            lastCall'.rows \in
               SurfaceSharedResults(sharedDeposits',
                                    lastCall'.rows[1].receiverId)
       /\ sharedDepositUsage' # sharedDepositUsage =>
            /\ lastCall'.op = "use" /\ lastCall'.code = 200
            /\ \A S \in DOMAIN sharedDeposits, sender \in UserIds :
                 (lastCall'.id = S /\ sharedDeposits[S].senderId = sender) =>
                    /\ (DefaultSummary(sender).totalUses)'
                         = DefaultSummary(sender).totalUses + 1
                    /\ (DefaultSummary(sender).helpfulUses)'
                         = DefaultSummary(sender).helpfulUses
                           + (IF lastCall'.includeInactive = "true" THEN 1
                              ELSE 0)
       /\ (/\ Serves("summary")
           /\ "weeks" \notin lastCall'.body.has
           /\ Len(sharedDeposits) = 1
           /\ sharedDeposits[1].senderId = lastCall'.userId
           /\ Len(sharedDepositUsage) = 1
           /\ sharedDepositUsage[1].helpful = "true"
           /\ sharedDepositUsage[1].usedAt = now) =>
            lastCall'.rows = <<[totalUses |-> 1, helpfulUses |-> 1,
                                weeks |-> 2]>>]_vars

\* C24 witness: after one share and one use with helpful = true the sender
\* has been given the summary {1, 1, 2}.
C24_Witness ==
    /\ Len(sharedDeposits) = 1
    /\ Len(sharedDepositUsage) = 1
    /\ sharedDepositUsage[1].helpful = "true"
    /\ lastCall.op = "summary"
    /\ lastCall.userId = sharedDeposits[1].senderId
    /\ lastCall.rows[1].totalUses = 1
    /\ lastCall.rows[1].helpfulUses = 1
    /\ lastCall.rows[1].weeks = 2

\* C25: the window senderSummary uses and returns as weeks is a positive
\* integer, and it is 2 when the request carries no weeks.
C25_WindowPositive ==
    lastCall.op = "summary" =>
       /\ lastCall.rows[1].weeks \in Nat \ {0}
       /\ "weeks" \notin lastCall.body.has => lastCall.rows[1].weeks = 2

\* the tables after a call of use for the shared deposit S on the day day:
\* the UPDATE and the INSERT of the handler
TableAfterUse(S, day) ==
    [sharedDeposits EXCEPT
       ![S] = ApplyUsed(@, [UsedData EXCEPT !.lastSurfacedAt = day])]

LedgerAfterUse(S, day, helpful) ==
    Append(sharedDepositUsage,
           [sharedDepositId |-> S, usedAt |-> day,
            helpful |-> HelpfulOrNull(helpful)])

\* the days up to now that lie in the window of the default summary
DaysInWindow == {day \in 0..now : day >= CutoffDate(now, DefaultWeeks)}

\* C26: what a sender can read does not tell which of their shared deposits
\* was used or when: for two continuations of a history that differ only in
\* the deposit used (both sent by the sender) or in the day of the use
\* within the window, the sender's list of sent deposits and the sender's
\* summary are the same.
C26_UseNotRevealed ==
    \A sender \in UserIds, helpful \in HelpfulInputs :
       \A S1, S2 \in SentDepositIds(sharedDeposits, sender) :
          \A day1, day2 \in DaysInWindow :
             /\ SentResults(TableAfterUse(S1, day1), sender)
                  = SentResults(TableAfterUse(S2, day2), sender)
             /\ SummaryOf(TableAfterUse(S1, day1),
                          LedgerAfterUse(S1, day1, helpful), now, sender,
                          WeeksQuery({}, <<>>))
                  = SummaryOf(TableAfterUse(S2, day2),
                              LedgerAfterUse(S2, day2, helpful), now, sender,
                              WeeksQuery({}, <<>>))

\* C27: in every reachable state, also while an accept is between its
\* statements or after one of them failed, a connection row from A to B
\* exists if and only if a row from B to A exists.
C27_BothDirections ==
    \A c \in connections :
       \E d \in connections :
          d.userId = c.connectedUserId /\ d.connectedUserId = c.userId

\* the two users of a connection row
PairOf(c) == {c.userId, c.connectedUserId}

\* C28: an accept answered 200 of an invite from A by B has inserted exactly
\* two connection rows, A to B and B to A, both with status accepted, and
\* leaves the invite accepted; a remove answered 200 deletes the rows of the
\* pair of the row with the given id, both directions, and no other row.
C28_AcceptAddsPairRemoveDeletesPair ==
    [][/\ (lastCall' # lastCall /\ lastCall'.op = "accept"
             /\ lastCall'.code = 200) =>
            \E r \in acceptInFlight' \ acceptInFlight :
               LET A == r.invite.senderId
                   B == r.userId
               IN /\ r.pc = "done"
                  /\ lastCall'.id = r.invite.inviteCode
                  /\ lastCall'.userId = B
                  /\ r.connection1.userId = A
                  /\ r.connection1.connectedUserId = B
                  /\ r.connection1.status = "accepted"
                  /\ r.connection2.userId = B
                  /\ r.connection2.connectedUserId = A
                  /\ r.connection2.status = "accepted"
                  /\ r.connection1.id # r.connection2.id
                  /\ circleInvites'[r.invite.id].status = "accepted"
       /\ \A r \in acceptInFlight :
            \A q \in acceptInFlight' :
               (q.n = r.n /\ q.pc # r.pc) =>
                  connections' \ connections =
                     ({q.connection1, q.connection2}
                        \ {r.connection1, r.connection2})
       /\ (lastCall' # lastCall /\ lastCall'.op = "removeConnection"
             /\ lastCall'.code = 200) =>
            \E c \in connections :
               /\ c.id = lastCall'.id
               /\ connections' =
                    {d \in connections : PairOf(d) # PairOf(c)}]_vars

\* C28 witness: an accept has been answered 200 and a remove has then
\* deleted one pair of rows while the rows of another pair stay.
C28_Witness ==
    /\ \E r \in acceptInFlight : r.pc = "done"
    /\ lastCall.op = "removeConnection"
    /\ lastCall.code = 200
    /\ Cardinality(connections) = 2
    /\ C27_BothDirections

\* C29: an accept of an invite whose expiresAt has passed is rejected and
\* creates no connection row: no such accept goes on to its writes, and its
\* response is an error.
C29_ExpiredRejected ==
    [][/\ \A r \in acceptInFlight' \ acceptInFlight :
            r.pc = "insert1" => now <= r.invite.expiresAt
       /\ (/\ lastCall' # lastCall
           /\ lastCall'.op = "accept"
           /\ lastCall'.id \in DOMAIN circleInvites
           /\ now > circleInvites[lastCall'.id].expiresAt) =>
            (lastCall'.code = 400 /\ lastCall'.rows = NoRows)]_vars

\* C30: an accept of one's own invite, of an invite that is no longer
\* pending, or while a connection between the two users exists is rejected:
\* no such accept goes on to its writes, and a call answered at its checks
\* is answered with an error and leaves the connections and invites tables
\* as they were.
C30_RejectedAcceptChangesNothing ==
    [][/\ \A r \in acceptInFlight' \ acceptInFlight :
            r.pc = "insert1" =>
               /\ r.invite.senderId # r.userId
               /\ circleInvites[r.invite.id].status = "pending"
               /\ \A c \in connections :
                    PairOf(c) # {r.invite.senderId, r.userId}
       /\ (/\ lastCall' # lastCall
           /\ lastCall'.op = "accept"
           /\ acceptInFlight' = acceptInFlight) =>
            /\ lastCall'.code \in {400, 404}
            /\ connections' = connections
            /\ circleInvites' = circleInvites]_vars

\* C30 witness: an accept has been refused because rows between the sender
\* of a pending invite and the user exist already.
C30_Witness ==
    /\ lastCall.op = "accept"
    /\ lastCall.code = 400
    /\ lastCall.id \in DOMAIN circleInvites
    /\ circleInvites[lastCall.id].status = "pending"
    /\ circleInvites[lastCall.id].senderId # lastCall.userId
    /\ \E c \in connections :
         PairOf(c) = {circleInvites[lastCall.id].senderId, lastCall.userId}

(* C31: once the connection between two users is removed, a share between   *)
(* them, in either direction, is answered 403 until an invite between them  *)
(* has been accepted. Read on the state: a share answered 201 while the     *)
(* rows of the first connection are gone has an accepted invite between its *)
(* sender and its receiver.                                                 *)
C31_RemovedPairCannotShare ==
    (/\ lastCall.op = "share"
     /\ lastCall.code = 201
     /\ connections \cap AcceptedPair("u1", "u2") = {})
    => \E r \in acceptInFlight :
          /\ r.pc = "done"
          /\ circleInvites[r.invite.id].status = "accepted"
          /\ {r.invite.senderId, r.userId}
               = {lastCall.body.senderId, lastCall.body.receiverId}

(* C32: every status the status modal of the History screen sends to       *)
(* PATCH /api/deposits/:id/status is the number -1, 0 or an integer of at  *)
(* least 1, and an entry of the cooldown field that parseInt reads as no   *)
(* number or as a number below 1 sends nothing.                            *)
C32_ModalStatusInDomain ==
    /\ lastCall.op = "setStatus"
       => /\ lastCall.body.statusType = "number"
          /\ lastCall.body.status \in {-1, 0} \cup (Nat \ {0})
    /\ \A cooldownDays \in CooldownEntries :
          (ParseInt(cooldownDays).isNaN \/ ParseInt(cooldownDays).value < 1)
          => CooldownStatus(cooldownDays) = {}

\* the modal has put a deposit into a cooldown of 2 days, then of 30 days
C32_Witness ==
    /\ lastCall.op = "setStatus"
    /\ lastCall.code = 200
    /\ lastCall.body.status = 30
    /\ \E id \in DOMAIN deposits :
          id # lastCall.id /\ deposits[id].status = 2

(* C33: a deposit with status -1 leaves that status only in a step that    *)
(* serves a setStatus request, also when a Rainy-Day round selected it     *)
(* before it was soft-deleted and marks it surfaced afterwards.            *)
C33_SoftDeletedStays ==
    [][\A id \in DOMAIN deposits :
          (deposits[id].status = SoftDeleted
             /\ deposits'[id].status # SoftDeleted)
          => lastCall'.op = "setStatus"]_vars

C35_NoCallsAfterClose ==
    [][((session.left \/ session.pc = "closed")
          /\ session'.number = session.number)
       => /\ deposits' = deposits
          /\ rainyDayLogs' = rainyDayLogs]_vars

(* C36: a session creates at most one log for each round it displays,      *)
(* also when Skip is pressed again before the next round is displayed:      *)
(* once a deposit is shown, the logs the session has created are no more    *)
(* than the rounds the Playback screen counts.                              *)
C36_OneLogPerRound ==
    session.shown >= 1 => Len(session.logIds) <= session.shown

(* C37: every deposit a Rainy-Day round has put into cooldown has a log     *)
(* that references it, also when a request of the round fails: outside the  *)
(* moment between a round's markSurfaced and its log request, each deposit  *)
(* whose cooldown a round set is the depositId of some log.                 *)
C37_MarkedHasLog ==
    session.pc \notin {"joyLog", "advLog"}
    => \A id \in surfacedSince :
          \E i \in DOMAIN rainyDayLogs : rainyDayLogs[i].depositId = id

(* C38: for every ordered pair of users there is at most one connection    *)
(* row from the first to the second, also while two invites between the     *)
(* same two users are accepted at the same time.                            *)
C38_OneRowPerPair ==
    \A c1, c2 \in connections :
       (c1.userId = c2.userId /\ c1.connectedUserId = c2.connectedUserId)
       => c1 = c2

(* C39: an invite code leads to at most one successful accept: no two       *)
(* accept requests for the same invite are both answered 200, also when     *)
(* two users send them at the same time.                                    *)
C39_OneAcceptPerInvite ==
    \A r1, r2 \in acceptInFlight :
       (r1.pc = "done" /\ r2.pc = "done" /\ r1.invite.id = r2.invite.id)
       => r1 = r2

(* C40: a deposit the user has deleted on the deposit detail screen is not  *)
(* returned by a later surface request and is not in a later answer of the  *)
(* deposit listing.                                                         *)
C40_DeletedNotServed ==
    [][(/\ lastCall'.op \in {"surface", "list"}
        /\ lastCall' # lastCall
        /\ deleted' = deleted)
       => \A i \in DOMAIN lastCall'.rows :
             lastCall'.rows[i].id \notin deleted]_vars

====
